---- MODULE Spec2Model ----
(***************************************************************************)
(* Acquisition pipeline of services/alibaba_websailor.py:                  *)
(*   - the credential pool of ViralImageFinder (api_keys,                  *)
(*     current_api_index, failed_apis, the clear_failure timer threads),   *)
(*   - the Serper and Apify provider clients that use it,                  *)
(*   - the extraction cascade of AlibabaWebSailorAgent.                    *)
(***************************************************************************)
EXTENDS Integers, Sequences, FiniteSets, TLC

\* ---------------------------------------------------------------- bounds
MaxKeys == 2          \* keys configured per service (code: up to 4 / 3)
NTasks == 2           \* concurrent process_result tasks (code: at most 3)
MaxTime == 600        \* the clock stops here
MaxItems == 1         \* items carried by one successful response
MaxUrls == 2          \* distinct URLs the providers can return
MaxResults == 2       \* length of one result list (code: up to 5)
MaxLinks == 1         \* internal links taken per page (code: 3)
MaxLikes == 105       \* likes of a post (crosses the bonus threshold)
MaxComments == 2      \* comments of a post
MaxShares == 1        \* shares of a post
MaxPosts == 2         \* distinct social posts among the results
MaxList == 3          \* length of all_results
MaxCand == 4          \* length of search_results in find_viral_images
MaxScore == 1         \* engagement scores of the candidates: 0..MaxScore
MaxHits == 1          \* results of one search call, links of one page
MaxRuns == 2          \* runs of navigate_and_research_deep on one agent
MaxSaved == 2         \* length of the viral_images list that is saved
MinSize == 2          \* data units that make up min_size_bytes
MaxJobs == 2          \* background jobs started for one session

\* ------------------------------------------------------ program constants
Cooldown == 300       \* time.sleep(300) in clear_failure
SerperMaxAttempts == 3   \* min(3, len(keys)) in _search_serper_advanced
NumSearchTypes == 2   \* search_types = ['images', 'search']
MinContent == 300     \* len(content) > 300 in _extract_with_multiple_strategies
JinaMaxRetries == 3   \* max_retries of _extract_with_jina
JinaTruncate == 15000 \* content[:15000] in _extract_with_jina
JinaSuffixLen == 39   \* len("... [conteúdo truncado para otimização]")
NumEngines == 5       \* len(search_engines) in navigate_and_research_deep
TopPages == 5         \* top_pages = sorted(all_content, ...)[:5]
NumRelated == 3       \* related_queries[:3]
MaxDepth == 3         \* depth_levels: int = 3
CommentWeight == 5    \* comments * 5 in _calculate_engagement_score
ShareWeight == 10     \* shares * 10
BonusOver == 100      \* if total_interactions > 100
max_concurrent == 3   \* max_concurrent = 3 in find_viral_images
NumLinks == 3         \* internal_links[:3]
MaxQueries == 5       \* list(set(related_queries))[:5]
NumContextTerms == 3  \* segmento, produto, publico
NumDataPatterns == 5  \* len(data_patterns)
NumBaseQueries == 25  \* len(base_queries + publico_queries)
NumExpandedQueries == 15   \* len(expanded)
MaxSearches == 50     \* search_count < 50
NumImageQueries == 8  \* queries[:8] in search_images

None == 0 - 1         \* Python None for an Optional key / index

Services == {"apify", "serper"}
SearchTask == 0            \* the task running search_images (sequential)
ApifyTasks == 1..NTasks    \* the process_result tasks of the fan-out
Tasks == {SearchTask} \cup ApifyTasks
Delays == {150}       \* amounts by which the controllable clock is advanced

\* Responses of a provider request, as the client code distinguishes them.
\*  "ok"        200 (Apify: 200/201) with a decodable payload of 0..MaxItems items
\*  "badjson"   200 whose body does not decode
\*  "s429"      HTTP 429
\*  "s401"      HTTP 400/401/403
\*  "s500"      any other status
\*  "exc"       network error / timeout raised by the HTTP call
\*  "exc40x"    an exception whose message text holds "400", "401" or "403",
\*              which the Serper client takes for an authentication error
Responses == {"ok", "badjson", "s429", "s401", "s500", "exc", "exc40x"}

\* Error kind of a response in the taxonomy Auth / RateLimited / Transient.
Kind(r) ==
    CASE r = "ok" -> "Ok"
      [] r \in {"s401", "exc40x"} -> "Auth"
      [] r = "s429" -> "RateLimited"
      [] OTHER -> "Transient"

VARIABLES
    api_keys,            \* service -> number of configured keys
    current_api_index,   \* service -> round-robin index
    failed_apis,         \* set of <<service, index>> in quarantine
    timers,              \* running clear_failure threads: [id, due]
    now,                 \* the clock
    pc,                  \* task -> "idle" | "sleep" | "await" | "done"
    svc,                 \* task -> service of the call in progress
    api_key,             \* task -> index of the key held (None if none)
    mark_index,          \* task -> current_index computed for marking
    attempts,            \* task -> attempts counter of the retry loop
    search_type,         \* task -> position in search_types (Serper)
    results,             \* task -> number of results collected / returned
    requested,           \* task -> the call in progress issued a request
    last_returned,       \* service -> index returned by the previous call
    quarantined_at,      \* <<service, index>> -> time it entered quarantine
    ex_pc,               \* extraction of one URL: "idle", a strategy, "done"
    jina_attempt,        \* attempt counter of the loop of _extract_with_jina
    ex_calls,            \* extractors invoked for the URL, in order
    ex_outputs,          \* what each strategy of the list gave, in order
    ex_result,           \* value returned by _extract_with_multiple_strategies
    ex_raised            \* an exception left _extract_with_multiple_strategies

poolVars == <<api_keys, current_api_index, failed_apis, timers, now,
              last_returned, quarantined_at>>
taskVars == <<pc, svc, api_key, mark_index, attempts, search_type, results,
              requested>>
exVars == <<ex_pc, jina_attempt, ex_calls, ex_outputs, ex_result, ex_raised>>

\* One run of navigate_and_research_deep.
VARIABLES
    nav_pc,              \* "idle" | "engines" | "internal" | "related" | "done"
    nav_idx,             \* engine being queried / pages or queries left
    nav_depth,           \* depth_levels of the run
    nav_queue,           \* URLs of the current result list not yet extracted
    nav_extracted,       \* URL -> times _extract_with_multiple_strategies ran
    all_content          \* URL -> number of entries of the all_content list

navVars == <<nav_pc, nav_idx, nav_depth, nav_queue, nav_extracted, all_content>>

\* One call of _calculate_engagement_score.
VARIABLES
    sc_pc,               \* "call" | "done"
    sc_in,               \* [likes, comments, shares, views, followers]
    sc_out               \* value returned, in hundredths (None before)

scoreVars == <<sc_pc, sc_in, sc_out>>

\* The deduplication step of search_images.
VARIABLES
    dd_pc,               \* "call" | "once" | "twice"
    dd_in,               \* all_results: the page_url of each result
    dd_out,              \* unique_results, as positions in all_results
    dd_out2              \* the step applied to unique_results, likewise

dedupVars == <<dd_pc, dd_in, dd_out, dd_out2>>

\* One call of find_viral_images.
VARIABLES
    fv_pc,               \* "idle" | "running" | "done"
    fv_n,                \* len(search_results)
    fv_max_images,       \* config['max_images']
    fv_extract,          \* config['extract_images']
    fv_task,             \* candidate -> "none" | "waiting" | "engagement"
                         \*              | "image" | "returned"
    fv_result,           \* candidate -> score of its ViralImage, or None
    fv_completed,        \* candidates in the order their tasks returned
    semaphore,           \* free slots of the asyncio.Semaphore
    viral_images         \* list returned: [cand, score] records

fanVars == <<fv_pc, fv_n, fv_max_images, fv_extract, fv_task, fv_result,
             fv_completed, semaphore, viral_images>>

\* One AlibabaWebSailorAgent and its runs of navigate_and_research_deep,
\* seen by their outcomes: result lists are counted, URLs are not named.
VARIABLES
    rn_pc,               \* "idle" | "engines" | "internal" | "queries"
                         \*   | "related" | "finish" | "done"
    rn_depth,            \* depth_levels of the run
    rn_idx,              \* engine being queried / pages or queries left
    rn_pending,          \* results of the current list not yet extracted
    rn_content,          \* len(all_content)
    search_engines_used, \* len(search_engines_used)
    rn_queried,          \* engines of the list called so far in this run
    rn_last,             \* how the latest search call ended
    navigation_stats,    \* self.navigation_stats (the counters modelled)
    rn_stats_at_start,   \* navigation_stats as the run found it
    rn_result,           \* what the run gave its caller
    rn_runs              \* runs started on this agent

runVars == <<rn_pc, rn_depth, rn_idx, rn_pending, rn_content,
             search_engines_used, rn_queried, rn_last, navigation_stats,
             rn_stats_at_start, rn_result, rn_runs>>

\* Construction of a ViralImageFinder or of an AlibabaWebSailorAgent from
\* the environment.
VARIABLES
    bd_pc,               \* "env" | "finder" | "agent"
    bd_keys,             \* provider -> credentials found in the environment
    bd_outcome,          \* "none" | "instance" | "raised": what the
                         \*   constructor gave its caller
    viral_image_finder   \* "unset" | "built" | "none"
                         \*   (AlibabaWebSailorAgent.viral_image_finder)

buildVars == <<bd_pc, bd_keys, bd_outcome, viral_image_finder>>

\* save_results writes the viral-results file and _incorporate_viral_data
\* reads it.
VARIABLES
    ps_pc,               \* "call" | "saved" | "read"
    ps_images,           \* viral_images: [platform, engagement, views, likes]
    ps_files,            \* the viral_results documents on disk
    ps_shown             \* platform -> the numbers the report shows

persistVars == <<ps_pc, ps_images, ps_files, ps_shown>>

\* One call of _calculate_content_quality.
VARIABLES
    cq_pc,               \* "call" | "done"
    cq_in,               \* [chars, words, hits, tier, data] of the call
    cq_out               \* value returned (None before)

qualityVars == <<cq_pc, cq_in, cq_out>>

\* One call of analyze_post_engagement and the ViralImage built from it.
VARIABLES
    an_pc,               \* "idle" | a strategy | "image" | "done"
    an_post,             \* [platform, shape] of the post URL
    playwright_enabled,  \* self.playwright_enabled
    an_calls,            \* strategies invoked, in call order
    an_outcomes,         \* what each of them gave: "data" | "none" | "raise"
    an_result,           \* the engagement dict returned ({} before)
    an_image             \* the ViralImage of process_result ({} before)

analyzeVars == <<an_pc, an_post, playwright_enabled, an_calls, an_outcomes,
                 an_result, an_image>>

\* One invocation of MassiveSearchEngine.execute_massive_search.
VARIABLES
    ms_pc,               \* "idle" | "for" | "done"
    search_queries,      \* the query list, as query numbers
    ms_next,             \* position of the for loop in search_queries
    search_count,        \* searches made
    current_size,        \* size of the collected data, in units
    ms_issued            \* query number -> times it was sent to the providers

massiveVars == <<ms_pc, search_queries, ms_next, search_count, current_size,
                 ms_issued>>

\* The background jobs of one workflow session and its status endpoint.
VARIABLES
    wf_pc,               \* "idle" | "running" | "done"
    wf_job,              \* "step1" | "step2" | "step3" | "complete"
    wf_step,             \* number of the next call of the job
    wf_collab_failed,    \* a collaborator call of the job has raised
    wf_last,             \* the stage the job saved when it ended
    wf_saved,            \* stages saved for the session by salvar_etapa
    wf_report,           \* analyses_data/<session>/relatorio_coleta.md exists
    wf_errored,          \* some job of the session has ended with an error
    wf_status,           \* the last answer of get_workflow_status ({}: none)
    wf_jobs              \* jobs started for the session

workflowVars == <<wf_pc, wf_job, wf_step, wf_collab_failed, wf_last, wf_saved,
                  wf_report, wf_errored, wf_status, wf_jobs>>

\* The Serper part of one call of search_images on a finder built from an
\* environment.
VARIABLES
    sg_pc,               \* "env" | "loop" | "done"
    sg_env,              \* SERPER_API_KEY, SERPER_API_KEY_1..3: state of each
    sg_keys,             \* len(self.api_keys['serper'])
    sg_config,           \* bool(self.config.get('serper_api_key'))
    sg_failed,           \* quarantined identifiers during the call
    sg_index,            \* current_api_index['serper']
    sg_query,            \* queries of the loop handled so far
    sg_called,           \* queries for which _search_serper_advanced ran
    sg_issued            \* queries for which a Serper request was sent

gateVars == <<sg_pc, sg_env, sg_keys, sg_config, sg_failed, sg_index,
              sg_query, sg_called, sg_issued>>

\* What the actions of one component leave alone.
poolOthers == <<exVars, navVars, scoreVars, dedupVars, fanVars, runVars,
                buildVars, persistVars, qualityVars, analyzeVars,
                massiveVars, workflowVars, gateVars>>
exOthers == <<poolVars, taskVars, navVars, scoreVars, dedupVars, fanVars,
              runVars, buildVars, persistVars, qualityVars, analyzeVars,
              massiveVars, workflowVars, gateVars>>
navOthers == <<poolVars, taskVars, exVars, scoreVars, dedupVars, fanVars,
               runVars, buildVars, persistVars, qualityVars, analyzeVars,
               massiveVars, workflowVars, gateVars>>
scoreOthers == <<poolVars, taskVars, exVars, navVars, dedupVars, fanVars,
                 runVars, buildVars, persistVars, qualityVars,
                 analyzeVars, massiveVars, workflowVars, gateVars>>
dedupOthers == <<poolVars, taskVars, exVars, navVars, scoreVars, fanVars,
                 runVars, buildVars, persistVars, qualityVars,
                 analyzeVars, massiveVars, workflowVars, gateVars>>
fanOthers == <<poolVars, taskVars, exVars, navVars, scoreVars, dedupVars,
               runVars, buildVars, persistVars, qualityVars, analyzeVars,
               massiveVars, workflowVars, gateVars>>
runOthers == <<poolVars, taskVars, exVars, navVars, scoreVars, dedupVars,
               fanVars, buildVars, persistVars, qualityVars, analyzeVars,
               massiveVars, workflowVars, gateVars>>
buildOthers == <<poolVars, taskVars, exVars, navVars, scoreVars,
                 dedupVars, fanVars, runVars, persistVars, qualityVars,
                 analyzeVars, massiveVars, workflowVars, gateVars>>
persistOthers == <<poolVars, taskVars, exVars, navVars, scoreVars,
                   dedupVars, fanVars, runVars, buildVars, qualityVars,
                   analyzeVars, massiveVars, workflowVars, gateVars>>
qualityOthers == <<poolVars, taskVars, exVars, navVars, scoreVars,
                   dedupVars, fanVars, runVars, buildVars, persistVars,
                   analyzeVars, massiveVars, workflowVars, gateVars>>
analyzeOthers == <<poolVars, taskVars, exVars, navVars, scoreVars,
                   dedupVars, fanVars, runVars, buildVars, persistVars,
                   qualityVars, massiveVars, workflowVars, gateVars>>
massiveOthers == <<poolVars, taskVars, exVars, navVars, scoreVars,
                   dedupVars, fanVars, runVars, buildVars, persistVars,
                   qualityVars, analyzeVars, workflowVars, gateVars>>
workflowOthers == <<poolVars, taskVars, exVars, navVars, scoreVars,
                    dedupVars, fanVars, runVars, buildVars, persistVars,
                    qualityVars, analyzeVars, massiveVars, gateVars>>
gateOthers == <<poolVars, taskVars, exVars, navVars, scoreVars,
                dedupVars, fanVars, runVars, buildVars, persistVars,
                qualityVars, analyzeVars, massiveVars, workflowVars>>
vars == <<poolVars, taskVars, exVars, navVars, scoreVars, dedupVars,
          fanVars, runVars, buildVars, persistVars, qualityVars,
          analyzeVars, massiveVars, workflowVars, gateVars>>

\* Key configurations explored: one behaviour exercises the rotation of one
\* service (the other has no key, or neither has: only Google CSE is set).
\* The pool state of a service is disjoint from the other's.
KeyConfigs == {f \in [Services -> 0..MaxKeys] : \E s \in Services : f[s] = 0}

KeyIds == {<<s, i>> : s \in Services, i \in 0..(MaxKeys - 1)}

\* ------------------------------------------------------- credential pool

\* Variant of the scan that does not test the quarantine set.
scan_ignoring_quarantine(service, keys, index, failed, attempt) ==
    [key |-> index, index |-> (index + 1) % keys]

\* Variant of the scan that returns a key without advancing the index.
RECURSIVE scan_without_advance(_, _, _, _, _)
scan_without_advance(service, keys, index, failed, attempt) ==
    IF attempt >= keys
    THEN [key |-> None, index |-> index]
    ELSE IF <<service, index>> \notin failed
         THEN [key |-> index, index |-> index]
         ELSE scan_without_advance(service, keys, (index + 1) % keys, failed,
                                   attempt + 1)

\* Variant of the scan that falls back to the current key when all failed.
RECURSIVE scan_with_fallback(_, _, _, _, _)
scan_with_fallback(service, keys, index, failed, attempt) ==
    IF attempt >= keys
    THEN [key |-> index, index |-> (index + 1) % keys]
    ELSE IF <<service, index>> \notin failed
         THEN [key |-> index, index |-> (index + 1) % keys]
         ELSE scan_with_fallback(service, keys, (index + 1) % keys, failed,
                                 attempt + 1)

\* The for-loop of _get_next_api_key: attempt in range(len(keys)).
RECURSIVE get_next_scan(_, _, _, _, _)
get_next_scan(service, keys, index, failed, attempt) ==
    IF attempt >= keys
    THEN [key |-> None, index |-> index]
    ELSE IF <<service, index>> \notin failed
         THEN [key |-> index, index |-> (index + 1) % keys]
         ELSE get_next_scan(service, keys, (index + 1) % keys, failed, attempt + 1)

\* _get_next_api_key(service): the key returned (its index) and the new
\* value of current_api_index[service].
get_next_api_key(service, keys, index, failed) ==
    IF keys = 0
    THEN [key |-> None, index |-> index]
    ELSE get_next_scan(service, keys, index, failed, 0)

\* failed_apis.add(api_identifier) of _mark_api_failed.
mark_add(failed, id) == failed \cup {id}

\* The thread started by _mark_api_failed: wakes Cooldown later.
mark_timer(id, t) == [id |-> id, due |-> t + Cooldown]

\* Variant of clear_failure that leaves the quarantine set as it is.
clear_failure_noop(failed, id) == failed

\* Body of clear_failure after the sleep.
clear_failure(failed, id) == IF id \in failed THEN failed \ {id} ELSE failed

\* Index the clients compute to name the key they just used.
index_in_use(service) ==
    (current_api_index[service] - 1) % api_keys[service]

\* _mark_api_failed(service, index): quarantine and start the timer thread.
mark_api_failed(id) ==
    /\ now + Cooldown <= MaxTime
    /\ failed_apis' = mark_add(failed_apis, id)
    /\ timers' = timers \cup {mark_timer(id, now)}
    /\ quarantined_at' = IF id \in failed_apis
                          THEN quarantined_at
                          ELSE [quarantined_at EXCEPT ![id] = now]

\* A call of _get_next_api_key(service) by a client: pool part of the step.
take_key(service, r) ==
    /\ current_api_index' = [current_api_index EXCEPT ![service] = r.index]
    /\ last_returned' = IF r.key = None
                         THEN last_returned
                         ELSE [last_returned EXCEPT ![service] = r.key]

\* Local variables of a call that has returned hold nothing live.
reset_locals(t) ==
    /\ api_key' = [api_key EXCEPT ![t] = None]
    /\ mark_index' = [mark_index EXCEPT ![t] = None]
    /\ attempts' = [attempts EXCEPT ![t] = 0]
    /\ search_type' = [search_type EXCEPT ![t] = 1]

PoolInit ==
    /\ api_keys \in KeyConfigs
    /\ current_api_index = [s \in Services |-> 0]
    /\ failed_apis = {}
    /\ timers = {}
    /\ now = 0
    /\ pc = [t \in Tasks |-> "idle"]
    /\ svc = [t \in Tasks |-> "serper"]
    /\ api_key = [t \in Tasks |-> None]
    /\ mark_index = [t \in Tasks |-> None]
    /\ attempts = [t \in Tasks |-> 0]
    /\ search_type = [t \in Tasks |-> 1]
    /\ results = [t \in Tasks |-> 0]
    /\ requested = [t \in Tasks |-> FALSE]
    /\ last_returned = [s \in Services |-> None]
    /\ quarantined_at = [id \in KeyIds |-> None]

\* ------------------------------------------ Serper client (lines 480-604)
\* A task runs without interruption between two awaits: the request
\* (session.post / session.get) and the asyncio.sleep calls are the
\* suspension points.

serper_max_attempts == IF SerperMaxAttempts < api_keys["serper"]
                       THEN SerperMaxAttempts ELSE api_keys["serper"]

\* One pass of the while loop up to the request, for search type st with
\* att attempts made (lines 512-528); req: the call has issued a request.
\* On None: break, then sleep(0.5) and the next search type, or return.
serper_attempt(t, st, att, req) ==
    LET r == get_next_api_key("serper", api_keys["serper"],
                              current_api_index["serper"], failed_apis)
    IN /\ take_key("serper", r)
       /\ IF r.key # None
          THEN /\ api_key' = [api_key EXCEPT ![t] = r.key]
               /\ requested' = [requested EXCEPT ![t] = TRUE]
               /\ search_type' = [search_type EXCEPT ![t] = st]
               /\ attempts' = [attempts EXCEPT ![t] = att]
               /\ pc' = [pc EXCEPT ![t] = "await"]
               /\ UNCHANGED mark_index
          ELSE IF st < NumSearchTypes
          THEN /\ api_key' = [api_key EXCEPT ![t] = None]
               /\ search_type' = [search_type EXCEPT ![t] = st + 1]
               /\ attempts' = [attempts EXCEPT ![t] = 0]
               /\ pc' = [pc EXCEPT ![t] = "sleep"]
               /\ requested' = [requested EXCEPT ![t] = req]
               /\ UNCHANGED mark_index
          ELSE /\ reset_locals(t)
               /\ pc' = [pc EXCEPT ![t] = "done"]
               /\ requested' = [requested EXCEPT ![t] = req]

SerperStart(t) ==
    /\ t = SearchTask
    /\ pc[t] \in {"idle", "done"}
    /\ svc' = [svc EXCEPT ![t] = "serper"]
    /\ results' = [results EXCEPT ![t] = 0]
    /\ IF api_keys["serper"] = 0
       THEN /\ pc' = [pc EXCEPT ![t] = "done"]
            /\ requested' = [requested EXCEPT ![t] = FALSE]
            /\ reset_locals(t)
            /\ UNCHANGED <<current_api_index, last_returned>>
       ELSE serper_attempt(t, 1, 0, FALSE)
    /\ UNCHANGED <<api_keys, failed_apis, timers, now, quarantined_at>>
    /\ UNCHANGED poolOthers

\* The task resumes from asyncio.sleep and makes the next attempt.
SerperWake(t) ==
    /\ pc[t] = "sleep" /\ svc[t] = "serper"
    /\ serper_attempt(t, search_type[t], attempts[t], requested[t])
    /\ UNCHANGED <<api_keys, failed_apis, timers, now, quarantined_at,
                   svc, results>>
    /\ UNCHANGED poolOthers

\* Whether the Serper client quarantines on response r (lines 566-568, 593).
serper_marks(r) == r \in {"s401", "exc40x"}

\* The response arrives and is handled up to the next sleep (lines 529-601).
SerperResponse(t, r, k) ==
    /\ pc[t] = "await" /\ svc[t] = "serper"
    /\ IF serper_marks(r)
       THEN mark_api_failed(<<"serper", index_in_use("serper")>>)
       ELSE UNCHANGED <<failed_apis, timers, quarantined_at>>
    /\ results' = [results EXCEPT ![t] = IF r = "ok" THEN @ + k ELSE @]
    /\ IF r # "ok" /\ attempts[t] + 1 < serper_max_attempts
       THEN /\ attempts' = [attempts EXCEPT ![t] = @ + 1]
            /\ api_key' = [api_key EXCEPT ![t] = None]
            /\ pc' = [pc EXCEPT ![t] = "sleep"]
            /\ UNCHANGED <<search_type, mark_index>>
       ELSE IF search_type[t] < NumSearchTypes
       THEN /\ search_type' = [search_type EXCEPT ![t] = @ + 1]
            /\ attempts' = [attempts EXCEPT ![t] = 0]
            /\ api_key' = [api_key EXCEPT ![t] = None]
            /\ pc' = [pc EXCEPT ![t] = "sleep"]
            /\ UNCHANGED mark_index
       ELSE /\ reset_locals(t)
            /\ pc' = [pc EXCEPT ![t] = "done"]
    /\ UNCHANGED <<api_keys, current_api_index, now, last_returned,
                   svc, requested>>
    /\ UNCHANGED poolOthers

\* ------------------------------------------ Apify client (lines 1345-1435)
\* No await separates the except clause from the next pass of the for loop:
\* handling a failed response and taking the next key are one step.

\* One pass of the for loop up to the request, with att passes made and the
\* quarantine set failed (lines 1356-1375). On None: break, return None.
apify_attempt(t, att, failed) ==
    LET r == get_next_api_key("apify", api_keys["apify"],
                              current_api_index["apify"], failed)
    IN /\ take_key("apify", r)
       /\ IF r.key # None
          THEN /\ api_key' = [api_key EXCEPT ![t] = r.key]
               /\ mark_index' = [mark_index EXCEPT ![t] =
                                   (r.index - 1) % api_keys["apify"]]
               /\ attempts' = [attempts EXCEPT ![t] = att]
               /\ requested' = [requested EXCEPT ![t] = TRUE]
               /\ pc' = [pc EXCEPT ![t] = "await"]
               /\ UNCHANGED search_type
          ELSE /\ reset_locals(t)
               /\ pc' = [pc EXCEPT ![t] = "done"]
               /\ requested' = [requested EXCEPT ![t] = (att > 0)]

ApifyStart(t, has_shortcode) ==
    /\ t \in ApifyTasks
    /\ pc[t] \in {"idle", "done"}
    /\ svc' = [svc EXCEPT ![t] = "apify"]
    /\ results' = [results EXCEPT ![t] = 0]
    /\ IF api_keys["apify"] = 0 \/ ~has_shortcode
       THEN /\ pc' = [pc EXCEPT ![t] = "done"]
            /\ requested' = [requested EXCEPT ![t] = FALSE]
            /\ reset_locals(t)
            /\ UNCHANGED <<current_api_index, last_returned>>
       ELSE apify_attempt(t, 0, failed_apis)
    /\ UNCHANGED <<api_keys, failed_apis, timers, now, quarantined_at>>
    /\ UNCHANGED poolOthers

\* Whether the Apify client quarantines on response r with k items
\* (every path into the except clause of lines 1430-1433).
apify_marks(r, k) == ~(r = "ok" /\ k > 0)

ApifyResponse(t, r, k) ==
    /\ pc[t] = "await" /\ svc[t] = "apify"
    /\ IF apify_marks(r, k)
       THEN /\ mark_api_failed(<<"apify", mark_index[t]>>)
            /\ IF attempts[t] + 1 < api_keys["apify"]
               THEN apify_attempt(t, attempts[t] + 1, failed_apis')
               ELSE /\ reset_locals(t)
                    /\ pc' = [pc EXCEPT ![t] = "done"]
                    /\ UNCHANGED <<current_api_index, last_returned, requested>>
            /\ UNCHANGED results
       ELSE /\ results' = [results EXCEPT ![t] = 1]
            /\ pc' = [pc EXCEPT ![t] = "done"]
            /\ reset_locals(t)
            /\ UNCHANGED <<failed_apis, timers, quarantined_at,
                           current_api_index, last_returned, requested>>
    /\ UNCHANGED <<api_keys, now, svc>>
    /\ UNCHANGED poolOthers

\* ------------------------------------------------- timer threads, clock

\* A clear_failure thread whose sleep is over runs its body and ends.
ClearFailure(tm) ==
    /\ tm \in timers
    /\ now >= tm.due
    /\ failed_apis' = clear_failure(failed_apis, tm.id)
    /\ timers' = timers \ {tm}
    /\ quarantined_at' = IF tm.id \in failed_apis'
                          THEN quarantined_at
                          ELSE [quarantined_at EXCEPT ![tm.id] = None]
    /\ UNCHANGED <<api_keys, current_api_index, now, last_returned, taskVars>>
    /\ UNCHANGED poolOthers

\* The clock advances, never past the wake-up time of a sleeping thread.
Tick ==
    /\ \E t2 \in {now + d : d \in Delays} \cup {tm.due : tm \in timers} :
          /\ t2 > now
          /\ t2 <= MaxTime
          /\ \A tm \in timers : t2 <= tm.due
          /\ now' = t2
    /\ UNCHANGED <<api_keys, current_api_index, failed_apis, timers,
                   last_returned, quarantined_at, taskVars>>
    /\ UNCHANGED poolOthers

\* --------------------------------- extraction cascade (lines 3013-3148)

\* What a strategy function gives: a text of some length, None, or an
\* exception. `by` names the extractor that produced it.
Text(by, len) == [kind |-> "text", by |-> by, len |-> len]
NoContent == [kind |-> "none", by |-> "none", len |-> 0]
Raised(by) == [kind |-> "raise", by |-> by, len |-> 0]

\* Lengths of the texts the extractors produce.
Lens == {0, 150, MinContent - 1, MinContent, MinContent + 1, 500, 800,
         JinaTruncate + 1}

strategies == <<"jina", "trafilatura", "readability", "beautifulsoup">>

\* Outcomes of the fetch-and-parse done by a local extractor.
LocalOutcomes(by) == {Text(by, l) : l \in Lens} \cup {NoContent, Raised(by)}

\* Responses of the remote reader to one attempt of _extract_with_jina.
JinaResponses == {"s200", "non200", "timeout", "reqexc", "otherexc"}

\* The text _extract_with_jina returns for a 200 body of length l.
jina_content(l) ==
    IF l > JinaTruncate THEN Text("jina", JinaTruncate + JinaSuffixLen)
    ELSE Text("jina", l)

\* Variant of the test that accepts a text of exactly the threshold length.
accepts_at_threshold(o) == o.kind = "text" /\ o.len >= MinContent

\* `content and len(content) > 300` (line 3026).
accepts(o) == o.kind = "text" /\ o.len > MinContent

\* Variant of the loop body that goes on after a success and keeps the
\* latest accepted text.
loop_body_last_wins(i, o, kept) ==
    IF o.kind # "raise" /\ accepts(o)
    THEN [stop |-> i = Len(strategies), ret |-> o, exc |-> FALSE]
    ELSE [stop |-> i = Len(strategies), ret |-> kept, exc |-> FALSE]

\* Variant of the loop body that lets the exception of a strategy out.
loop_body_propagates(i, o, kept) ==
    IF o.kind = "raise"
    THEN [stop |-> TRUE, ret |-> NoContent, exc |-> TRUE]
    ELSE IF accepts(o)
    THEN [stop |-> TRUE, ret |-> o, exc |-> FALSE]
    ELSE [stop |-> i = Len(strategies), ret |-> NoContent, exc |-> FALSE]

\* Body of the for loop for strategy number i that gave o (lines 3023-3031),
\* and `return None` after the last one (line 3033): whether the function
\* returns now, what it returns, whether an exception leaves it.
loop_body(i, o, kept) ==
    IF o.kind = "raise"
    THEN [stop |-> i = Len(strategies), ret |-> NoContent, exc |-> FALSE]
    ELSE IF accepts(o)
    THEN [stop |-> TRUE, ret |-> o, exc |-> FALSE]
    ELSE [stop |-> i = Len(strategies), ret |-> NoContent, exc |-> FALSE]

\* Strategy number i has given o, having invoked the extractors `invoked`.
strategy_done(i, o, invoked) ==
    LET d == loop_body(i, o, ex_result)
    IN /\ ex_calls' = ex_calls \o invoked
       /\ ex_outputs' = Append(ex_outputs, o)
       /\ ex_result' = d.ret
       /\ ex_raised' = d.exc
       /\ ex_pc' = IF d.stop THEN "done" ELSE strategies[i + 1]
       /\ jina_attempt' = 0

ExInit ==
    /\ ex_pc = "idle"
    /\ jina_attempt = 0
    /\ ex_calls = <<>>
    /\ ex_outputs = <<>>
    /\ ex_result = NoContent
    /\ ex_raised = FALSE

\* _extract_with_multiple_strategies(url) is called for a URL.
ExtractStart ==
    /\ ex_pc \in {"idle", "done"}
    /\ ex_pc' = strategies[1]
    /\ jina_attempt' = 0
    /\ ex_calls' = <<>>
    /\ ex_outputs' = <<>>
    /\ ex_result' = NoContent
    /\ ex_raised' = FALSE
    /\ UNCHANGED exOthers

\* One pass of the retry loop of _extract_with_jina (lines 3037-3066):
\* r is the answer of the remote reader, l the length of a 200 body, fb
\* what _extract_with_beautifulsoup gives when called as the fallback.
JinaAttempt(r, l, fb) ==
    /\ ex_pc = "jina"
    /\ CASE r = "s200" ->
              strategy_done(1, jina_content(l), <<"jina">>)
         [] r = "timeout" ->
              strategy_done(1, fb, <<"jina", "beautifulsoup">>)
         [] r = "otherexc" ->
              strategy_done(1, Raised("jina"), <<"jina">>)
         [] r = "reqexc" /\ jina_attempt = JinaMaxRetries - 1 ->
              strategy_done(1, NoContent, <<"jina">>)
         [] r = "non200" /\ jina_attempt = JinaMaxRetries - 1 ->
              strategy_done(1, NoContent, <<"jina">>)
         [] OTHER ->
              /\ jina_attempt' = jina_attempt + 1
              /\ ex_calls' = Append(ex_calls, "jina")
              /\ UNCHANGED <<ex_pc, ex_outputs, ex_result, ex_raised>>
    /\ UNCHANGED exOthers

\* _extract_with_trafilatura, _extract_with_readability and
\* _extract_with_beautifulsoup, each called once by the loop.
RunTrafilatura(o) ==
    /\ ex_pc = "trafilatura"
    /\ strategy_done(2, o, <<"trafilatura">>)
    /\ UNCHANGED exOthers

RunReadability(o) ==
    /\ ex_pc = "readability"
    /\ strategy_done(3, o, <<"readability">>)
    /\ UNCHANGED exOthers

RunBeautifulSoup(o) ==
    /\ ex_pc = "beautifulsoup"
    /\ strategy_done(4, o, <<"beautifulsoup">>)
    /\ UNCHANGED exOthers

JinaAttemptAny ==
    \E r \in JinaResponses, l \in Lens, fb \in LocalOutcomes("beautifulsoup") :
        JinaAttempt(r, l, fb)
RunTrafilaturaAny == \E o \in LocalOutcomes("trafilatura") : RunTrafilatura(o)
RunReadabilityAny == \E o \in LocalOutcomes("readability") : RunReadability(o)
RunBeautifulSoupAny == \E o \in LocalOutcomes("beautifulsoup") : RunBeautifulSoup(o)

\* ------------------- navigate_and_research_deep (lines 2508-2694)
\* all_content is kept as the number of entries per URL; the order of the
\* list plays no part in what is modelled here.

Urls == 1..MaxUrls

\* Result lists a search (or the link extraction of a page) can return.
ResultLists(n) == UNION {[1..k -> Urls] : k \in 0..n}

RECURSIVE CountFrom(_, _)
CountFrom(c, u) == IF u > MaxUrls THEN 0 ELSE c[u] + CountFrom(c, u + 1)

\* len(all_content)
ContentLen(c) == CountFrom(c, 1)

Min(a, b) == IF a < b THEN a ELSE b

\* Level 3 is entered, or the run ends (line 2636).
after_internal(depth) ==
    IF depth > 2 THEN [pc |-> "related", idx |-> NumRelated]
    ELSE [pc |-> "done", idx |-> 0]

\* Level 2 is entered over the top pages, or skipped (lines 2614-2619).
after_engines(depth, c) ==
    IF depth > 1 /\ ContentLen(c) > 0
    THEN [pc |-> "internal", idx |-> Min(TopPages, ContentLen(c))]
    ELSE after_internal(depth)

\* Where the run stands once the current result list is used up.
nav_after(phase, idx, depth, c) ==
    CASE phase = "engines" ->
             IF idx < NumEngines THEN [pc |-> "engines", idx |-> idx + 1]
             ELSE after_engines(depth, c)
      [] phase = "internal" ->
             IF idx > 0 THEN [pc |-> "internal", idx |-> idx]
             ELSE after_internal(depth)
      [] OTHER ->
             IF idx > 0 THEN [pc |-> "related", idx |-> idx]
             ELSE [pc |-> "done", idx |-> 0]

\* A result list res was obtained in phase `phase`: its URLs are extracted
\* one by one; an empty list moves on at once.
nav_take(phase, idx, res) ==
    /\ nav_queue' = res
    /\ IF res = <<>>
       THEN LET a == nav_after(phase, idx, nav_depth, all_content)
            IN nav_pc' = a.pc /\ nav_idx' = a.idx
       ELSE nav_pc' = phase /\ nav_idx' = idx
    /\ UNCHANGED <<nav_depth, nav_extracted, all_content>>

NavInit ==
    /\ nav_pc = "idle"
    /\ nav_idx = 0
    /\ nav_depth = MaxDepth
    /\ nav_queue = <<>>
    /\ nav_extracted = [u \in Urls |-> 0]
    /\ all_content = [u \in Urls |-> 0]

\* navigate_and_research_deep(query, context, depth_levels=depth) begins.
NavStart(depth) ==
    /\ nav_pc \in {"idle", "done"}
    /\ nav_pc' = "engines"
    /\ nav_idx' = 1
    /\ nav_depth' = depth
    /\ nav_queue' = <<>>
    /\ nav_extracted' = [u \in Urls |-> 0]
    /\ all_content' = [u \in Urls |-> 0]
    /\ UNCHANGED navOthers

\* Engine number nav_idx is queried (lines 2546-2562): it answers with a
\* result list, runs into the 15 s timeout, or raises.
NavSearch(outcome, res) ==
    /\ nav_pc = "engines" /\ nav_queue = <<>>
    /\ nav_take("engines", nav_idx, IF outcome = "ok" THEN res ELSE <<>>)
    /\ UNCHANGED navOthers

\* _extract_intelligent_content on the next URL of the list (lines
\* 2569-2576, 2625-2630, 2646-2653); ran: the URL passed _is_url_relevant
\* and the cascade ran on it; ok: it gave content, appended to all_content.
NavExtract(ran, ok) ==
    /\ nav_pc \in {"engines", "internal", "related"}
    /\ nav_queue # <<>>
    /\ LET u == Head(nav_queue)
           c == IF ran /\ ok THEN [all_content EXCEPT ![u] = @ + 1]
                ELSE all_content
           a == nav_after(nav_pc, nav_idx, nav_depth, c)
       IN /\ nav_extracted' = IF ran THEN [nav_extracted EXCEPT ![u] = @ + 1]
                                ELSE nav_extracted
          /\ all_content' = c
          /\ nav_queue' = Tail(nav_queue)
          /\ IF Len(nav_queue) = 1
             THEN nav_pc' = a.pc /\ nav_idx' = a.idx
             ELSE UNCHANGED <<nav_pc, nav_idx>>
    /\ UNCHANGED nav_depth
    /\ UNCHANGED navOthers

\* _extract_internal_links of the next top page (lines 2621-2624): at most
\* MaxLinks links, distinct and different from the page's URL.
NavInternal(page, links) ==
    /\ nav_pc = "internal" /\ nav_queue = <<>> /\ nav_idx > 0
    /\ all_content[page] > 0
    /\ Len(links) <= MaxLinks
    /\ \A i \in DOMAIN links : links[i] # page
    /\ \A i, j \in DOMAIN links : links[i] = links[j] => i = j
    /\ nav_take("internal", nav_idx - 1, links)
    /\ UNCHANGED navOthers

\* _google_search_deep of the next related query (lines 2641-2644); a
\* raise is caught per query (lines 2656-2658).
NavRelated(outcome, res) ==
    /\ nav_pc = "related" /\ nav_queue = <<>> /\ nav_idx > 0
    /\ nav_take("related", nav_idx - 1, IF outcome = "ok" THEN res ELSE <<>>)
    /\ UNCHANGED navOthers

EngineOutcomes == {"ok", "timeout", "raise"}

NavStartAny == \E d \in 1..MaxDepth : NavStart(d)
NavSearchAny ==
    \E o \in EngineOutcomes, res \in ResultLists(MaxResults) : NavSearch(o, res)
NavExtractAny == \E ran, ok \in BOOLEAN : NavExtract(ran, ok)
NavInternalAny ==
    \E page \in Urls, links \in ResultLists(MaxLinks) : NavInternal(page, links)
NavRelatedAny ==
    \E o \in {"ok", "raise"}, res \in ResultLists(MaxResults) : NavRelated(o, res)

\* ------------- _calculate_engagement_score (lines 1955-1967)
\* Scores are kept in hundredths: the function returns round(x, 2).

\* Audiences of a post.
ViewVals == {0, 1, 3, 7, 8, 800, 12000}
FollowerVals == {0, 3, 16}

Metrics ==
    [likes : 0..MaxLikes, comments : 0..MaxComments, shares : 0..MaxShares,
     views : ViewVals, followers : FollowerVals]

\* total_interactions (line 1957)
total_interactions(likes, comments, shares) ==
    likes + (comments * CommentWeight) + (shares * ShareWeight)

\* Variant of the bonus test with the comparison inverted.
bonus_inverted(w) == w < BonusOver

\* Variant of the bonus test that includes the threshold.
bonus_at_threshold(w) == w >= BonusOver

\* `if total_interactions > 100` (line 1965)
bonus(w) == w > BonusOver

\* round(num / den, 0) for num >= 0, den > 0: to nearest, ties to even.
round_half_even(num, den) ==
    LET q == num \div den
        r == num % den
    IN IF 2 * r < den THEN q
       ELSE IF 2 * r > den THEN q + 1
       ELSE IF q % 2 = 0 THEN q ELSE q + 1

\* 100 * rate as the fraction num / den (lines 1958-1966): the rate over
\* views, else over followers, else the interactions themselves, times 1.2
\* with the bonus.
rate100(w, views, followers) ==
    LET base == IF views > 0 THEN [num |-> w * 10000, den |-> views]
                ELSE IF followers > 0 THEN [num |-> w * 10000, den |-> followers]
                ELSE [num |-> w * 100, den |-> 1]
    IN IF bonus(w) THEN [num |-> base.num * 6, den |-> base.den * 5]
       ELSE base

\* _calculate_engagement_score, in hundredths (line 1967): the rate and
\* total_interactions * 0.1 (10 * w hundredths), the larger one rounded.
calculate_engagement_score(likes, comments, shares, views, followers) ==
    LET w == total_interactions(likes, comments, shares)
        r == rate100(w, views, followers)
    IN IF r.num >= 10 * w * r.den THEN round_half_even(r.num, r.den)
       ELSE 10 * w

ScoreInit ==
    /\ sc_pc = "call"
    /\ sc_in \in Metrics
    /\ sc_out = None

ScoreIdle ==
    /\ sc_pc = "done"
    /\ sc_in = [likes |-> 0, comments |-> 0, shares |-> 0, views |-> 0,
                followers |-> 0]
    /\ sc_out = 0

\* _calculate_engagement_score is applied to the metrics of a post.
ScoreCall ==
    /\ sc_pc = "call"
    /\ sc_out' = calculate_engagement_score(sc_in.likes, sc_in.comments,
                      sc_in.shares, sc_in.views, sc_in.followers)
    /\ sc_pc' = "done"
    /\ UNCHANGED sc_in
    /\ UNCHANGED scoreOthers

\* ------------- deduplication of search_images (lines 407-416)
\* A page_url string is a social post in one of its spellings, the URL of
\* another site, or the empty string. A result is the object at a position
\* of all_results; unique_results holds the same objects.
\*   "plain"   https://www.instagram.com/p/<id>/
\*   "scheme"  HTTPS://www.instagram.com/p/<id>/
\*   "host"    https://www.Instagram.com/p/<id>/
\*   "track"   https://www.instagram.com/p/<id>/?utm_source=x
\*   "slash"   https://www.instagram.com/p/<id>
\*   "pad"     the plain spelling with surrounding white space
Spellings == {"plain", "scheme", "host", "track", "slash", "pad"}
OtherSite == [page |-> 0, spelling |-> "plain"]
EmptyString == [page |-> 0, spelling |-> "empty"]
PageUrls ==
    {[page |-> p, spelling |-> s] : p \in 1..MaxPosts, s \in Spellings}
        \cup {OtherSite, EmptyString}

ResultSeqs == UNION {[1..k -> PageUrls] : k \in 0..MaxList}

\* str.strip()
strip(u) == IF u.spelling = "pad" THEN [u EXCEPT !.spelling = "plain"] ELSE u

\* _is_valid_social_url (lines 418-428): re.search of the lower-case
\* patterns, e.g. instagram\.com/(p|reel)/.
is_valid_social_url(u) == u.page > 0 /\ u.spelling # "host"

\* Variant of the loop that starts at the second result.
RECURSIVE dedupe_skip_first(_, _, _, _)
dedupe_skip_first(xs, i, seen_urls, unique_results) ==
    LET j == IF i = 1 THEN 2 ELSE i
    IN IF j > Len(xs) THEN unique_results
       ELSE LET post_url == strip(xs[j])
            IN IF post_url # EmptyString /\ post_url \notin seen_urls
                  /\ is_valid_social_url(post_url)
               THEN dedupe_skip_first(xs, j + 1, seen_urls \cup {post_url},
                                      Append(unique_results, j))
               ELSE dedupe_skip_first(xs, j + 1, seen_urls, unique_results)

\* Variant of the loop that keeps the latest result of a URL.
RECURSIVE dedupe_keep_last(_, _, _, _)
dedupe_keep_last(xs, i, seen_urls, unique_results) ==
    IF i > Len(xs) THEN unique_results
    ELSE LET post_url == strip(xs[i])
             others == SelectSeq(unique_results,
                                 LAMBDA k : strip(xs[k]) # post_url)
         IN IF post_url # EmptyString /\ is_valid_social_url(post_url)
            THEN dedupe_keep_last(xs, i + 1, seen_urls \cup {post_url},
                                  Append(others, i))
            ELSE dedupe_keep_last(xs, i + 1, seen_urls, unique_results)

\* The loop of lines 410-414 from result number i on, with the URLs seen
\* and the positions kept so far.
RECURSIVE dedupe_loop(_, _, _, _)
dedupe_loop(xs, i, seen_urls, unique_results) ==
    IF i > Len(xs) THEN unique_results
    ELSE LET post_url == strip(xs[i])
         IN IF post_url # EmptyString /\ post_url \notin seen_urls
               /\ is_valid_social_url(post_url)
            THEN dedupe_loop(xs, i + 1, seen_urls \cup {post_url},
                             Append(unique_results, i))
            ELSE dedupe_loop(xs, i + 1, seen_urls, unique_results)

\* Lines 408-416 on the list xs: the positions of xs that are kept.
dedupe(xs) == dedupe_loop(xs, 1, {}, <<>>)

\* The results at the positions ks of xs.
pick(xs, ks) == [j \in DOMAIN ks |-> xs[ks[j]]]

DedupInit ==
    /\ dd_pc = "call"
    /\ dd_in \in ResultSeqs
    /\ dd_out = <<>>
    /\ dd_out2 = <<>>

DedupIdle ==
    /\ dd_pc = "twice"
    /\ dd_in = <<>>
    /\ dd_out = <<>>
    /\ dd_out2 = <<>>

\* The step runs on all_results.
Dedup ==
    /\ dd_pc = "call"
    /\ dd_out' = dedupe(dd_in)
    /\ dd_pc' = "once"
    /\ UNCHANGED <<dd_in, dd_out2>>
    /\ UNCHANGED dedupOthers

\* The step runs on its own output.
DedupAgain ==
    /\ dd_pc = "once"
    /\ dd_out2' = pick(dd_out, dedupe(pick(dd_in, dd_out)))
    /\ dd_pc' = "twice"
    /\ UNCHANGED <<dd_in, dd_out>>
    /\ UNCHANGED dedupOthers

\* ------------------------ find_viral_images (lines 2276-2353)
\* The per-result bodies run as asyncio tasks; a task runs alone between
\* two awaits. Every search result has a non-empty page_url (line 412).

Cands == 1..MaxCand

\* search_results[:max_images]
Scheduled(n, mi) == 1..Min(n, mi)

\* Variant of the semaphore test that lets every task in.
may_enter_unbounded(free) == TRUE

\* `async with semaphore` can be entered: a slot is free.
may_enter(free) == free > 0

\* Variant of the exit that keeps the slot when the body failed.
release_unless_failed(free, failed) == IF failed THEN free ELSE free + 1

\* Leaving `async with semaphore`, normally or by an exception.
release(free, failed) == free + 1

\* Variant of the collection that takes the answers as they complete.
collect_as_completed(res, completed, n) ==
    SelectSeq(completed, LAMBDA i : res[i] # None)

\* asyncio.gather gives the answers in task order; the ViralImage ones are
\* kept (lines 2345-2350). Candidates are named by their position.
RECURSIVE collect(_, _, _)
collect(res, completed, n) ==
    IF n = 0 THEN <<>>
    ELSE LET rest == collect(res, completed, n - 1)
         IN IF res[n] # None THEN Append(rest, n) ELSE rest

\* viral_images.sort(key=engagement_score, reverse=True) (line 2352):
\* list.sort is stable, also with reverse=True. An entry goes behind the
\* entries that do not score below it and before the ones that do.
place(res, sorted, x) ==
    SelectSeq(sorted, LAMBDA y : res[y] >= res[x])
        \o <<x>> \o SelectSeq(sorted, LAMBDA y : res[y] < res[x])

\* The first n entries of xs in sorted order; the sorted prefix is bound
\* once and the next entry placed into it.
RECURSIVE sort_first(_, _, _)
sort_first(res, xs, n) ==
    IF n = 0 THEN <<>>
    ELSE CHOOSE out \in {place(res, sorted, xs[n]) :
                            sorted \in {sort_first(res, xs, n - 1)}} : TRUE

sort_by_score(res, xs) == sort_first(res, xs, Len(xs))

FanInit ==
    /\ fv_pc = "idle"
    /\ fv_n = 0
    /\ fv_max_images = 1
    /\ fv_extract = TRUE
    /\ fv_task = [i \in Cands |-> "none"]
    /\ fv_result = [i \in Cands |-> None]
    /\ fv_completed = <<>>
    /\ semaphore = max_concurrent
    /\ viral_images = <<>>

\* find_viral_images is called; search_images gave n results (lines
\* 2280-2287, 2339-2343). No result: return [] at once.
FvStart(n, mi, extract) ==
    /\ fv_pc \in {"idle", "done"}
    /\ fv_n' = n
    /\ fv_max_images' = mi
    /\ fv_extract' = extract
    /\ fv_pc' = IF n = 0 THEN "done" ELSE "running"
    /\ fv_task' = [i \in Cands |->
                     IF i \in Scheduled(n, mi) THEN "waiting" ELSE "none"]
    /\ fv_result' = [i \in Cands |-> None]
    /\ fv_completed' = <<>>
    /\ semaphore' = max_concurrent
    /\ viral_images' = <<>>
    /\ UNCHANGED fanOthers

\* Task i enters `async with semaphore` (line 2289) and runs up to the
\* await of analyze_post_engagement. Waiters are served in task order.
FvAcquire(i) ==
    /\ fv_pc = "running"
    /\ fv_task[i] = "waiting"
    /\ \A j \in 1..(i - 1) : fv_task[j] # "waiting"
    /\ may_enter(semaphore)
    /\ semaphore' = semaphore - 1
    /\ fv_task' = [fv_task EXCEPT ![i] = "engagement"]
    /\ UNCHANGED <<fv_pc, fv_n, fv_max_images, fv_extract, fv_result,
                   fv_completed, viral_images>>
    /\ UNCHANGED fanOthers

\* The body of task i ends: with a ViralImage of score s, or with None
\* after an exception (lines 2334-2336); the slot is given back.
fv_return(i, s, failed) ==
    /\ fv_task' = [fv_task EXCEPT ![i] = "returned"]
    /\ fv_result' = [fv_result EXCEPT ![i] = IF failed THEN None ELSE s]
    /\ fv_completed' = Append(fv_completed, i)
    /\ semaphore' = release(semaphore, failed)

\* analyze_post_engagement answers task i with score s, or raises
\* (lines 2298-2302).
FvEngagement(i, s, raises) ==
    /\ fv_pc = "running"
    /\ fv_task[i] = "engagement"
    /\ IF ~raises /\ fv_extract
       THEN /\ fv_task' = [fv_task EXCEPT ![i] = "image"]
            /\ fv_result' = [fv_result EXCEPT ![i] = s]
            /\ UNCHANGED <<fv_completed, semaphore>>
       ELSE fv_return(i, s, raises)
    /\ UNCHANGED <<fv_pc, fv_n, fv_max_images, fv_extract, viral_images>>
    /\ UNCHANGED fanOthers

\* extract_image_data answers task i, or raises (lines 2303-2333).
FvImage(i, raises) ==
    /\ fv_pc = "running"
    /\ fv_task[i] = "image"
    /\ fv_return(i, fv_result[i], raises)
    /\ UNCHANGED <<fv_pc, fv_n, fv_max_images, fv_extract, viral_images>>
    /\ UNCHANGED fanOthers

\* gather returns once every task has returned; the ViralImage answers
\* are collected and sorted (lines 2345-2352).
FvGather ==
    /\ fv_pc = "running"
    /\ \A i \in Cands : fv_task[i] \in {"none", "returned"}
    /\ viral_images' =
          LET kept == sort_by_score(fv_result,
                          collect(fv_result, fv_completed,
                                  Min(fv_n, fv_max_images)))
          IN [k \in DOMAIN kept |->
                 [cand |-> kept[k], score |-> fv_result[kept[k]]]]
    /\ fv_pc' = "done"
    /\ UNCHANGED <<fv_n, fv_max_images, fv_extract, fv_task, fv_result,
                   fv_completed, semaphore>>
    /\ UNCHANGED fanOthers

FvStartAny ==
    \E n \in 0..MaxCand, mi \in 1..MaxCand, e \in BOOLEAN : FvStart(n, mi, e)
FvAcquireAny == \E i \in Cands : FvAcquire(i)
FvEngagementAny ==
    \E i \in Cands, s \in 0..MaxScore, r \in BOOLEAN : FvEngagement(i, s, r)
FvImageAny == \E i \in Cands, r \in BOOLEAN : FvImage(i, r)

\* ------------- runs of navigate_and_research_deep and their outcome
\* (lines 2509-2694). The auto-save helpers (salvar_etapa,
\* salvar_trecho_pesquisa_web) return normally.

\* Counters of navigation_stats (lines 2488-2496) that the run changes by
\* counting; preferred_sources, total_content_chars and avg_quality_score
\* are left out.
ZeroStats ==
    [total_searches |-> 0, successful_extractions |-> 0,
     failed_extractions |-> 0, blocked_urls |-> 0]

NoResult == [kind |-> "none", pages |-> 0, statistics |-> FALSE,
             raised |-> FALSE]

\* Level 3 is entered, or the run goes to its final part (line 2635).
level3_or_finish(depth) ==
    IF depth > 2 THEN [pc |-> "queries", idx |-> 0]
    ELSE [pc |-> "finish", idx |-> 0]

\* Variant of the engine loop that gives the loop up at a failed engine.
advance_aborting(phase, idx, depth, n, last) ==
    CASE phase = "engines" ->
             IF idx < NumEngines /\ last \notin {"timeout", "raise"}
             THEN [pc |-> "engines", idx |-> idx + 1]
             ELSE IF depth > 1 /\ n > 0
                  THEN [pc |-> "internal", idx |-> Min(TopPages, n)]
                  ELSE level3_or_finish(depth)
      [] phase = "internal" ->
             IF idx > 0 THEN [pc |-> "internal", idx |-> idx]
             ELSE level3_or_finish(depth)
      [] OTHER ->
             IF idx > 0 THEN [pc |-> "related", idx |-> idx]
             ELSE [pc |-> "finish", idx |-> 0]

\* Where the run goes once the current result list is used up: the next
\* engine whatever the last one did (lines 2546, 2559, 2612), then level 2
\* over the top pages (2615-2621), level 3 (2635-2640), the final part.
advance(phase, idx, depth, n, last) ==
    CASE phase = "engines" ->
             IF idx < NumEngines THEN [pc |-> "engines", idx |-> idx + 1]
             ELSE IF depth > 1 /\ n > 0
                  THEN [pc |-> "internal", idx |-> Min(TopPages, n)]
                  ELSE level3_or_finish(depth)
      [] phase = "internal" ->
             IF idx > 0 THEN [pc |-> "internal", idx |-> idx]
             ELSE level3_or_finish(depth)
      [] OTHER ->
             IF idx > 0 THEN [pc |-> "related", idx |-> idx]
             ELSE [pc |-> "finish", idx |-> 0]

\* _process_and_analyze_content (lines 3453-3457): the emergency payload
\* when all_content is empty, the analysis otherwise.
payload_kind(n) == IF n = 0 THEN "emergency" ELSE "normal"

\* Variant of the handlers of a search call that lets a raise through.
search_handled_not(outcome) == outcome # "raise"

\* A raise or a timeout of a search call is caught where it happens
\* (lines 2557-2559, 2610-2612, 2655-2657).
search_handled(outcome) == TRUE

RunInit ==
    /\ rn_pc = "idle"
    /\ rn_depth = MaxDepth
    /\ rn_idx = 0
    /\ rn_pending = 0
    /\ rn_content = 0
    /\ search_engines_used = 0
    /\ rn_queried = 0
    /\ rn_last = "none"
    /\ navigation_stats = ZeroStats
    /\ rn_stats_at_start = ZeroStats
    /\ rn_result = NoResult
    /\ rn_runs = 0

\* navigate_and_research_deep(query, context, depth_levels=depth) begins
\* (lines 2519-2544); navigation_stats is taken as it is.
RunStart(depth) ==
    /\ rn_pc \in {"idle", "done"}
    /\ rn_runs < MaxRuns
    /\ rn_runs' = rn_runs + 1
    /\ rn_pc' = "engines"
    /\ rn_depth' = depth
    /\ rn_idx' = 1
    /\ rn_pending' = 0
    /\ rn_content' = 0
    /\ search_engines_used' = 0
    /\ rn_queried' = 0
    /\ rn_last' = "none"
    /\ rn_stats_at_start' = navigation_stats
    /\ rn_result' = NoResult
    /\ UNCHANGED navigation_stats
    /\ UNCHANGED runOthers

\* The run gives up with the exception of a search call.
run_raises ==
    /\ rn_pc' = "done"
    /\ rn_result' = [NoResult EXCEPT !.raised = TRUE]
    /\ UNCHANGED <<rn_idx, rn_pending>>

\* The list of k results of a search call (k = 0: none) is taken up.
run_take(phase, idx, k, last) ==
    IF k = 0
    THEN LET a == advance(phase, idx, rn_depth, rn_content, last)
         IN rn_pc' = a.pc /\ rn_idx' = a.idx /\ rn_pending' = 0
    ELSE rn_pc' = phase /\ rn_idx' = idx /\ rn_pending' = k

\* _google_search_deep counts a search when it got HTTP 200 (line 2770).
count_search(stats, google, outcome) ==
    IF google /\ outcome = "ok"
    THEN [stats EXCEPT !.total_searches = @ + 1]
    ELSE stats

\* Engine number rn_idx is called under wait_for (lines 2546-2563). It
\* answers HTTP 200 with k usable results ("ok"), returns [] from its own
\* handling of a missing key, a bad status or an exception ("failed"),
\* runs into the 15 s timeout, or raises.
RunSearch(outcome, k) ==
    /\ rn_pc = "engines" /\ rn_pending = 0
    /\ rn_queried' = rn_queried + 1
    /\ rn_last' = outcome
    /\ navigation_stats' = count_search(navigation_stats, rn_idx = 1, outcome)
    /\ search_engines_used' =
          IF outcome = "ok" /\ k > 0 THEN search_engines_used + 1
          ELSE search_engines_used
    /\ IF search_handled(outcome)
       THEN run_take("engines", rn_idx, IF outcome = "ok" THEN k ELSE 0,
                     outcome)
       ELSE run_raises
    /\ UNCHANGED <<rn_depth, rn_content, rn_stats_at_start, rn_runs>>
    /\ IF search_handled(outcome) THEN UNCHANGED rn_result ELSE TRUE
    /\ UNCHANGED runOthers

\* navigation_stats after _extract_intelligent_content ended one way
\* (lines 2973-3011, 3153-3174): a URL on the blocked lists is counted by
\* _is_url_relevant and again by the caller, another irrelevant URL once.
count_extraction(stats, o) ==
    CASE o = "blocked" -> [stats EXCEPT !.blocked_urls = @ + 2]
      [] o = "irrelevant" -> [stats EXCEPT !.blocked_urls = @ + 1]
      [] o = "success" -> [stats EXCEPT !.successful_extractions = @ + 1]
      [] o = "failed" -> [stats EXCEPT !.failed_extractions = @ + 1]
      [] OTHER -> stats

\* _extract_intelligent_content on the next result of the list (lines
\* 2566-2576, 2624-2630, 2644-2652): the URL is refused, the cascade gives
\* content ("success") or none ("nothing"), or an exception is counted.
RunExtract(o) ==
    /\ rn_pc \in {"engines", "internal", "related"}
    /\ rn_pending > 0
    /\ navigation_stats' = count_extraction(navigation_stats, o)
    /\ LET n == IF o = "success" THEN rn_content + 1 ELSE rn_content
           a == advance(rn_pc, rn_idx, rn_depth, n, rn_last)
       IN /\ rn_content' = n
          /\ rn_pending' = rn_pending - 1
          /\ IF rn_pending = 1
             THEN rn_pc' = a.pc /\ rn_idx' = a.idx
             ELSE UNCHANGED <<rn_pc, rn_idx>>
    /\ UNCHANGED <<rn_depth, search_engines_used, rn_queried, rn_last,
                   rn_stats_at_start, rn_result, rn_runs>>
    /\ UNCHANGED runOthers

\* _extract_internal_links of the next top page gives k links
\* (lines 2621-2624); its own failures give none.
RunInternal(k) ==
    /\ rn_pc = "internal" /\ rn_pending = 0 /\ rn_idx > 0
    /\ run_take("internal", rn_idx - 1, k, rn_last)
    /\ UNCHANGED <<rn_depth, rn_content, search_engines_used, rn_queried,
                   rn_last, navigation_stats, rn_stats_at_start, rn_result,
                   rn_runs>>
    /\ UNCHANGED runOthers

\* _generate_intelligent_related_queries gives nq queries, of which the
\* first three are used (lines 2638-2640).
RunQueries(nq) ==
    /\ rn_pc = "queries"
    /\ LET a == advance("related", Min(nq, NumRelated), rn_depth, rn_content,
                        rn_last)
       IN rn_pc' = a.pc /\ rn_idx' = a.idx
    /\ UNCHANGED <<rn_depth, rn_pending, rn_content, search_engines_used,
                   rn_queried, rn_last, navigation_stats, rn_stats_at_start,
                   rn_result, rn_runs>>
    /\ UNCHANGED runOthers

\* _google_search_deep of the next related query (lines 2641-2644).
RunRelated(outcome, k) ==
    /\ rn_pc = "related" /\ rn_pending = 0 /\ rn_idx > 0
    /\ rn_last' = outcome
    /\ navigation_stats' = count_search(navigation_stats, TRUE, outcome)
    /\ IF search_handled(outcome)
       THEN run_take("related", rn_idx - 1, IF outcome = "ok" THEN k ELSE 0,
                     outcome)
       ELSE run_raises
    /\ IF search_handled(outcome) THEN UNCHANGED rn_result ELSE TRUE
    /\ UNCHANGED <<rn_depth, rn_content, search_engines_used, rn_queried,
                   rn_stats_at_start, rn_runs>>
    /\ UNCHANGED runOthers

\* The final part (lines 2659-2689): the viral images are looked for when
\* a finder exists and attached to the payload, failures of that search
\* are caught; the content is analysed and the payload returned. The analysis carries
\* self.navigation_stats (line 3500), the emergency payload carries no
\* statistics (lines 3575-3603).
RunFinish ==
    /\ rn_pc = "finish"
    /\ rn_pc' = "done"
    /\ LET kind == payload_kind(rn_content)
       IN rn_result' = [kind |-> kind, pages |-> rn_content,
                        statistics |-> (kind = "normal"), raised |-> FALSE]
    /\ UNCHANGED <<rn_depth, rn_idx, rn_pending, rn_content,
                   search_engines_used, rn_queried, rn_last, navigation_stats,
                   rn_stats_at_start, rn_runs>>
    /\ UNCHANGED runOthers

SearchOutcomes == {"ok", "failed", "timeout", "raise"}
ExtractOutcomes == {"blocked", "irrelevant", "success", "nothing", "failed"}

RunStartAny == \E d \in 1..MaxDepth : RunStart(d)
RunSearchAny == \E o \in SearchOutcomes, k \in 0..MaxHits : RunSearch(o, k)
RunExtractAny == \E o \in ExtractOutcomes : RunExtract(o)
RunInternalAny == \E k \in 0..Min(NumLinks, MaxHits) : RunInternal(k)
RunQueriesAny == \E nq \in 0..MaxQueries : RunQueries(nq)
RunRelatedAny ==
    \E o \in {"ok", "failed", "raise"}, k \in 0..MaxHits : RunRelated(o, k)

\* ------------- construction (lines 100-125, 150-204, 2441-2507)

Providers == {"apify", "openrouter", "serper", "google_cse"}

\* Credentials _load_multiple_api_keys can load for a provider
\* (lines 159, 165, 172-179, 185-188).
KeySlots(p) ==
    CASE p = "serper" -> 4
      [] p = "google_cse" -> 1
      [] OTHER -> 3

Environments == {ks \in [Providers -> 0..MaxKeys] :
                    \A p \in Providers : ks[p] <= KeySlots(p)}

\* total_apis (line 194)
total_apis(ks) == ks["apify"] + ks["openrouter"] + ks["serper"] + ks["google_cse"]

\* _validate_api_configuration raises ValueError (lines 196-202).
validation_raises(ks) == total_apis(ks) = 0

BuildInit ==
    /\ bd_pc = "env"
    /\ bd_keys \in Environments
    /\ bd_outcome = "none"
    /\ viral_image_finder = "unset"

BuildIdle ==
    /\ bd_pc = "agent"
    /\ bd_keys = [p \in Providers |-> 0]
    /\ bd_outcome = "instance"
    /\ viral_image_finder = "none"

\* ViralImageFinder() (lines 100-125): the keys are loaded and validated.
NewFinder ==
    /\ bd_pc = "env"
    /\ bd_pc' = "finder"
    /\ bd_outcome' = IF validation_raises(bd_keys) THEN "raised" ELSE "instance"
    /\ UNCHANGED <<bd_keys, viral_image_finder>>
    /\ UNCHANGED buildOthers

\* AlibabaWebSailorAgent() (lines 2441-2507): the finder is constructed
\* inside try/except and replaced by None when its constructor raises.
NewAgent ==
    /\ bd_pc = "env"
    /\ bd_pc' = "agent"
    /\ viral_image_finder' =
          IF validation_raises(bd_keys) THEN "none" ELSE "built"
    /\ bd_outcome' = "instance"
    /\ UNCHANGED bd_keys
    /\ UNCHANGED buildOthers

\* ------------- save_results (lines 2373-2436) and _incorporate_viral_data
\* (routes/enhanced_workflow.py, lines 872-954). A JSON object is a
\* function from its keys.

Platforms == {"instagram", "facebook"}

SavedImages ==
    [platform : Platforms, engagement : 0..MaxScore, views : 0..MaxScore,
     likes : 0..MaxScore]

SavedLists == UNION {[1..k -> SavedImages] : k \in 0..MaxSaved}

\* sum(f(img) for img in images of platform p)
RECURSIVE sum_of(_, _, _)
sum_of(images, p, field) ==
    IF images = <<>> THEN 0
    ELSE LET img == Head(images)
         IN (IF img.platform = p THEN img[field] ELSE 0)
                + sum_of(Tail(images), p, field)

\* count of the images of platform p
RECURSIVE count_of(_, _)
count_of(images, p) ==
    IF images = <<>> THEN 0
    ELSE (IF Head(images).platform = p THEN 1 ELSE 0)
            + count_of(Tail(images), p)

\* platform_stats (lines 2386-2399): one entry per platform met.
platform_stats(images) ==
    [p \in {images[i].platform : i \in DOMAIN images} |->
        [count |-> count_of(images, p),
         total_engagement |-> sum_of(images, p, "engagement"),
         total_views |-> sum_of(images, p, "views"),
         total_likes |-> sum_of(images, p, "likes")]]

\* The document of lines 2400-2429, as far as the reader looks at it.
saved_document(images) ==
    [total_content |-> Len(images),
     platform_distribution |-> platform_stats(images)]

\* dict.get(key, default)
get(d, key, default) == IF key \in DOMAIN d THEN d[key] ELSE default

\* What _incorporate_viral_data puts in the report for each platform of
\* the document (lines 906-914).
shown_platforms(doc) ==
    LET dist == get(doc, "platform_distribution", <<>>)
    IN [p \in DOMAIN dist |->
           [count |-> get(dist[p], "count", 0),
            engagement |-> get(dist[p], "engagement", 0),
            views |-> get(dist[p], "views", 0),
            likes |-> get(dist[p], "likes", 0)]]

PersistInit ==
    /\ ps_pc = "call"
    /\ ps_images \in SavedLists
    /\ ps_files = {}
    /\ ps_shown = <<>>

PersistIdle ==
    /\ ps_pc = "read"
    /\ ps_images = <<>>
    /\ ps_files = {}
    /\ ps_shown = <<>>

\* save_results(viral_images, query): the file is written, or the write
\* fails and "" is returned (lines 2430-2436).
SaveResults(written) ==
    /\ ps_pc = "call"
    /\ ps_pc' = "saved"
    /\ ps_files' = IF written THEN {saved_document(ps_images)} ELSE {}
    /\ UNCHANGED <<ps_images, ps_shown>>
    /\ UNCHANGED persistOthers

\* _incorporate_viral_data reads the newest viral_results file, if any.
IncorporateViralData ==
    /\ ps_pc = "saved"
    /\ ps_pc' = "read"
    /\ ps_shown' = IF ps_files = {} THEN <<>>
                   ELSE shown_platforms(CHOOSE doc \in ps_files : TRUE)
    /\ UNCHANGED <<ps_images, ps_files>>
    /\ UNCHANGED persistOthers

SaveResultsAny == \E w \in BOOLEAN : SaveResults(w)

\* ------------- _calculate_content_quality (lines 3267-3336)
\* A call is described by what the function looks at: len(content),
\* len(content.split()), the context terms found in the content, the tier
\* of the URL's domain and the number of data patterns that match.

CharCounts == {0, 1, 399, 499, 500, 999, 1000, 1999, 2000, 2500}
WordCounts == {0, 1, 199, 200, 499, 500}
Tiers == {"preferred", "gov_edu", "org", "other"}

\* n words take at least 2n - 1 characters; the empty string has none.
QualityInputs ==
    {i \in [chars : CharCounts, words : WordCounts, hits : 0..NumContextTerms,
            tier : Tiers, data : 0..NumDataPatterns] :
        /\ i.words > 0 => i.chars >= (2 * i.words) - 1
        /\ i.chars = 0 => (i.hits = 0 /\ i.data = 0)}

\* lines 3282-3289
length_score(chars) ==
    IF chars >= 2000 THEN 20
    ELSE IF chars >= 1000 THEN 15
    ELSE IF chars >= 500 THEN 10
    ELSE 5

\* lines 3300-3305: 10 per context term found, min(relevance_score, 30)
relevance_score(hits) == Min(hits * 10, 30)

\* lines 3308-3316
domain_score(tier) ==
    CASE tier = "preferred" -> 20
      [] tier = "gov_edu" -> 15
      [] tier = "org" -> 10
      [] OTHER -> 5

\* lines 3319-3325
density_score(words) ==
    IF words >= 500 THEN 15
    ELSE IF words >= 200 THEN 10
    ELSE 5

\* lines 3333-3334: min(data_count * 3, 15)
data_score(data) == Min(data * 3, 15)

\* The sum of the five parts, capped: min(score, 100.0) (line 3336).
scored(i) ==
    Min(length_score(i.chars) + relevance_score(i.hits) + domain_score(i.tier)
            + density_score(i.words) + data_score(i.data),
        100)

\* Variant without the test for empty content.
content_quality_unguarded(i) == scored(i)

\* _calculate_content_quality: 0.0 for empty content (lines 3275-3276).
content_quality(i) == IF i.chars = 0 THEN 0 ELSE scored(i)

QualityInit ==
    /\ cq_pc = "call"
    /\ cq_in \in QualityInputs
    /\ cq_out = None

QualityIdle ==
    /\ cq_pc = "done"
    /\ cq_in = [chars |-> 0, words |-> 0, hits |-> 0, tier |-> "other",
                data |-> 0]
    /\ cq_out = 0

\* _calculate_content_quality(content, url, context) is called.
QualityCall ==
    /\ cq_pc = "call"
    /\ cq_out' = content_quality(cq_in)
    /\ cq_pc' = "done"
    /\ UNCHANGED cq_in
    /\ UNCHANGED qualityOthers

\* ------------------- analyze_post_engagement (lines 1304-1343)
\* Scores are kept in hundredths, as calculate_engagement_score gives them.

\* Post URLs by platform (_determine_platform, youtube: a youtube.com URL)
\* and by the path marker they hold: /p/, /reel/, /photos/ or none.
Posts ==
    [platform : {"instagram", "facebook", "youtube", "web"},
     shape : {"p", "reel", "photos", "plain"}]

\* Counts a provider or a page reports for a post.
LikeCounts == {0, 10, 120}
CommentCounts == {0, 3}
ShareCounts == {0, 1}
ViewCounts == {0, 200}
FollowerCounts == {0, 800}

\* The engagement dict of a strategy, `by` naming the strategy.
Engagement(by, score, views, likes, comments, shares, followers) ==
    [by |-> by, engagement_score |-> score, views |-> views, likes |-> likes,
     comments |-> comments, shares |-> shares, followers |-> followers]

\* _analyze_with_apify_rotation on post data (lines 1386-1396).
apify_metrics(likes, comments, views, followers) ==
    Engagement("apify", (likes + comments * 3) * 100,
               IF views # 0 THEN views ELSE likes * 10,
               likes, comments, comments \div 2, followers)

\* _get_instagram_embed_data on a 200 answer (lines 1456-1466).
embed_metrics == Engagement("embed", 50 * 100, 1000, 50, 5, 10, 1000)

\* _parse_facebook_meta_tags with base_engagement = base (lines 1530-1545).
meta_metrics(base) ==
    Engagement("meta", base * 100, base * 20, base * 2, (base * 4) \div 10,
               (base * 8) \div 10, 5000)

\* _get_default_engagement('facebook') (lines 1981-1988).
default_engagement == Engagement("meta", 15 * 100, 300, 15, 2, 3, 2000)

\* _analyze_with_playwright_robust on extracted numbers (lines 1850-1858).
browser_metrics(likes, comments, shares, views, followers) ==
    LET f == IF followers # 0 THEN followers ELSE 1000
    IN Engagement("browser",
                  calculate_engagement_score(likes, comments, shares, views, f),
                  views, likes, comments, shares, f)

\* base_score of _estimate_engagement_by_platform (lines 1902-1913).
base_score(post) ==
    CASE post.platform = "instagram" ->
            IF post.shape = "reel" THEN 30 + 20 ELSE 30
      [] post.platform = "facebook" ->
            IF post.shape = "photos" THEN 20 + 10 ELSE 20
      [] post.platform = "youtube" -> 40
      [] OTHER -> 10

\* multiplier of _estimate_engagement_by_platform (lines 1915-1919).
multiplier(post) ==
    CASE post.platform = "instagram" -> 25
      [] post.platform = "facebook" -> 15
      [] post.platform = "youtube" -> 50
      [] OTHER -> 20

\* _estimate_engagement_by_platform (lines 1920-1930), returned by strategy by.
estimate_metrics(by, post) ==
    LET b == base_score(post)
    IN Engagement(by, b * 100, b * multiplier(post), b * 2, (b * 3) \div 10,
                  b \div 2, 5000)

\* The dicts strategy s can return for post.
StrategyData(s, post) ==
    CASE s = "apify" ->
            {apify_metrics(l, c, v, f) : l \in LikeCounts, c \in CommentCounts,
                                         v \in ViewCounts, f \in FollowerCounts}
      [] s = "embed" -> {embed_metrics}
      [] s = "meta" ->
            {meta_metrics(b) : b \in {25, 25 + 25, 25 + 30, 25 + 25 + 30}}
               \cup {default_engagement}
      [] s = "browser" ->
            {browser_metrics(l, c, sh, v, f) :
                l \in LikeCounts \ {0}, c \in CommentCounts, sh \in ShareCounts,
                v \in ViewCounts, f \in FollowerCounts}
               \cup {estimate_metrics("browser", post)}
      [] OTHER -> {estimate_metrics("estimate", post)}

analysis_order == <<"apify", "embed", "meta", "browser", "estimate">>

\* The tests that guard each strategy (lines 1307, 1324, 1333).
applicable(s, post, pw) ==
    CASE s \in {"apify", "embed"} ->
            post.platform = "instagram" /\ post.shape \in {"p", "reel"}
      [] s = "meta" -> post.platform = "facebook"
      [] s = "browser" -> pw
      [] OTHER -> TRUE

\* The first strategy after number i that the tests let run.
next_strategy(i, post, pw) ==
    LET j == CHOOSE j \in (i + 1)..Len(analysis_order) :
                /\ applicable(analysis_order[j], post, pw)
                /\ \A k \in (i + 1)..(j - 1) :
                      ~applicable(analysis_order[k], post, pw)
    IN analysis_order[j]

RankOf(s) == CHOOSE i \in DOMAIN analysis_order : analysis_order[i] = s

\* Variant that goes on to the next strategy after a success as well.
after_strategy_all(s, o, post, pw) == next_strategy(RankOf(s), post, pw)

\* Where the call goes after strategy s gave o: `return` on data, the
\* next strategy on None and on a caught exception.
after_strategy(s, o, post, pw) ==
    IF o = "data" THEN "image" ELSE next_strategy(RankOf(s), post, pw)

AnalyzeInit ==
    /\ an_pc = "idle"
    /\ an_post = [platform |-> "web", shape |-> "plain"]
    /\ playwright_enabled \in BOOLEAN
    /\ an_calls = <<>>
    /\ an_outcomes = <<>>
    /\ an_result = {}
    /\ an_image = {}

AnalyzeIdle ==
    /\ an_pc = "done"
    /\ an_post = [platform |-> "web", shape |-> "plain"]
    /\ playwright_enabled = FALSE
    /\ an_calls = <<>>
    /\ an_outcomes = <<>>
    /\ an_result = {}
    /\ an_image = {}

\* process_result calls analyze_post_engagement(page_url, platform).
AnalyzeStart(post) ==
    /\ an_pc = "idle"
    /\ an_post' = post
    /\ an_pc' = next_strategy(0, post, playwright_enabled)
    /\ UNCHANGED <<playwright_enabled, an_calls, an_outcomes, an_result,
                   an_image>>
    /\ UNCHANGED analyzeOthers

\* One of the guarded strategies runs and gives o (data d when o = "data").
RunStrategy(o, d) ==
    /\ an_pc \in {"apify", "embed", "meta", "browser"}
    /\ o = "data" => d \in StrategyData(an_pc, an_post)
    /\ an_calls' = Append(an_calls, an_pc)
    /\ an_outcomes' = Append(an_outcomes, o)
    /\ an_result' = IF o = "data" THEN an_result \cup {d} ELSE an_result
    /\ an_pc' = after_strategy(an_pc, o, an_post, playwright_enabled)
    /\ UNCHANGED <<an_post, playwright_enabled, an_image>>
    /\ UNCHANGED analyzeOthers

\* The last resort (line 1343).
RunEstimate ==
    /\ an_pc = "estimate"
    /\ an_calls' = Append(an_calls, "estimate")
    /\ an_outcomes' = Append(an_outcomes, "data")
    /\ an_result' = an_result \cup {estimate_metrics("estimate", an_post)}
    /\ an_pc' = "image"
    /\ UNCHANGED <<an_post, playwright_enabled, an_image>>
    /\ UNCHANGED analyzeOthers

\* The ViralImage of process_result (lines 2310-2327): the fields of the
\* engagement dict, copied.
viral_image_of(e) ==
    [platform |-> an_post.platform, engagement_score |-> e.engagement_score,
     views_estimate |-> e.views, likes_estimate |-> e.likes,
     comments_estimate |-> e.comments, shares_estimate |-> e.shares,
     author_followers |-> e.followers]

MakeViralImage ==
    /\ an_pc = "image"
    /\ an_image' = {viral_image_of(e) : e \in an_result}
    /\ an_pc' = "done"
    /\ UNCHANGED <<an_post, playwright_enabled, an_calls, an_outcomes,
                   an_result>>
    /\ UNCHANGED analyzeOthers

StrategyOutcomes == {"data", "none", "raise"}

AnalyzeStartAny == \E post \in Posts : AnalyzeStart(post)
RunStrategyAny ==
    \E o \in StrategyOutcomes :
        \E d \in (IF o = "data" THEN StrategyData(an_pc, an_post)
                  ELSE {estimate_metrics("estimate", an_post)}) :
            RunStrategy(o, d)

\* ------------------- execute_massive_search (massive_search_engine.py)
\* Queries are numbered: 1..NumBaseQueries are those of
\* _generate_search_queries, the following NumExpandedQueries those of
\* _generate_expanded_queries. The data size is counted in units of which
\* MinSize make up self.min_size_bytes.

QueryIds == 1..(NumBaseQueries + NumExpandedQueries)

\* _generate_search_queries (lines 161-194)
generate_search_queries == [i \in 1..NumBaseQueries |-> i]

\* _generate_expanded_queries (lines 196-217)
generate_expanded_queries ==
    [i \in 1..NumExpandedQueries |-> NumBaseQueries + i]

\* The test of the while loop (line 87).
goes_on(size, count) == size < MinSize /\ count < MaxSearches

MassiveIdle ==
    /\ ms_pc = "done"
    /\ search_queries = <<>>
    /\ ms_next = 1
    /\ search_count = 0
    /\ current_size = 0
    /\ ms_issued = [q \in QueryIds |-> 0]

MassiveInit ==
    /\ ms_pc = "idle"
    /\ search_queries = <<>>
    /\ ms_next = 1
    /\ search_count = 0
    /\ current_size = 0
    /\ ms_issued = [q \in QueryIds |-> 0]

\* The call up to the first pass of the for loop (lines 38-88).
MassiveStart ==
    /\ ms_pc = "idle"
    /\ search_queries' = generate_search_queries
    /\ search_count' = 0
    /\ current_size' = 0
    /\ ms_next' = 1
    /\ ms_issued' = [q \in QueryIds |-> 0]
    /\ ms_pc' = IF goes_on(0, 0) THEN "for" ELSE "done"
    /\ UNCHANGED massiveOthers

\* One pass of the for body (lines 88-124): the query is sent to both
\* providers, whose answers add d units to the data.
MassiveSearch(d) ==
    /\ ms_pc = "for"
    /\ ms_next <= Len(search_queries)
    /\ current_size < MinSize
    /\ search_count' = search_count + 1
    /\ ms_issued' = [ms_issued EXCEPT ![search_queries[ms_next]] = @ + 1]
    /\ current_size' = current_size + d
    /\ ms_next' = ms_next + 1
    /\ UNCHANGED <<ms_pc, search_queries>>
    /\ UNCHANGED massiveOthers

\* The for loop ends, by break or at the end of the list; the list is
\* extended when the size is not reached, and the while test is made
\* (lines 89-90, 126-128, 87).
MassiveNextPass ==
    /\ ms_pc = "for"
    /\ ms_next > Len(search_queries) \/ current_size >= MinSize
    /\ search_queries' = IF current_size < MinSize
                         THEN search_queries \o generate_expanded_queries
                         ELSE search_queries
    /\ ms_next' = 1
    /\ ms_pc' = IF goes_on(current_size, search_count) THEN "for" ELSE "done"
    /\ UNCHANGED <<search_count, current_size, ms_issued>>
    /\ UNCHANGED massiveOthers

MassiveSearchAny == \E d \in 0..1 : MassiveSearch(d)

\* ------------------- workflow jobs (enhanced_workflow.py lines 31-534)

Jobs == {"step1", "step2", "step3", "complete"}

\* A call made by a job: the function and the keyword arguments given.
Call(callee, given) == [callee |-> callee, given |-> given]

\* The calls of each job up to its final save, in order (lines 86-136,
\* 206-225, 294-301, 379-428).
JobCalls(job) ==
    CASE job = "step1" ->
           <<Call("execute_massive_real_search",
                  {"query", "context", "session_id"}),
             Call("execute_massive_search",
                  {"query", "session_id", "max_results_per_api"}),
             Call("analyze_and_capture_viral_content",
                  {"search_results", "session_id", "max_captures"}),
             Call("generate_viral_report", {"session_id"}),
             Call("_generate_collection_report", {}),
             Call("_save_collection_report", {})>>
      [] job = "step2" ->
           <<Call("execute_enhanced_synthesis", {"session_id", "synthesis_type"}),
             Call("execute_behavioral_synthesis", {}),
             Call("execute_market_synthesis", {})>>
      [] job = "step3" ->
           <<Call("generate_all_modules", {}),
             Call("compile_final_markdown_report", {})>>
      [] OTHER ->
           <<Call("execute_massive_real_search",
                  {"query", "context", "session_id"}),
             Call("analyze_and_capture_viral_content",
                  {"search_results", "session_id"}),
             Call("generate_viral_report", {"session_id"}),
             Call("_generate_collection_report", {}),
             Call("_save_collection_report", {}),
             Call("execute_enhanced_synthesis", {}),
             Call("generate_all_modules", {}),
             Call("compile_final_markdown_report", {})>>

\* Parameters without a default that the callee must get by keyword:
\* execute_massive_search(self, produto, publico_alvo, session_id, **kwargs)
\* (massive_search_engine.py line 38); the other callees take what they
\* are given.
required(callee) ==
    IF callee = "execute_massive_search"
    THEN {"produto", "publico_alvo", "session_id"}
    ELSE {}

\* Python binds the call or raises TypeError for a missing argument.
binds(call) == required(call.callee) \subseteq call.given

\* The stages a job saves at its end (lines 138, 150, 228, 240, 304, 316,
\* 431, 445).
done_stage(job) ==
    CASE job = "step1" -> "etapa1_concluida"
      [] job = "step2" -> "etapa2_concluida"
      [] job = "step3" -> "etapa3_concluida"
      [] OTHER -> "workflow_completo"

error_stage(job) ==
    CASE job = "step1" -> "etapa1_erro"
      [] job = "step2" -> "etapa2_erro"
      [] job = "step3" -> "etapa3_erro"
      [] OTHER -> "workflow_erro"

\* salvar_etapa(name, data, categoria="workflow") of auto_save_manager: a
\* file of the session under relatorios_intermediarios/workflow whose name
\* begins with the stage name and holds the session id.
salvar_etapa(saved, name) == saved \cup {name}

\* The stages whose files the glob patterns of get_workflow_status match
\* (lines 515-519).
error_patterns == {"etapa1_erro", "etapa2_erro", "etapa3_erro"}

\* get_workflow_status (lines 476-526), as far as step 1 and the error
\* field go.
workflow_status(saved, report) ==
    [step1 |-> IF report THEN "completed" ELSE "pending",
     error |-> (saved \cap error_patterns # {})]

WorkflowInit ==
    /\ wf_pc = "idle"
    /\ wf_job = "step1"
    /\ wf_step = 1
    /\ wf_collab_failed = FALSE
    /\ wf_last = "none"
    /\ wf_saved = {}
    /\ wf_report = FALSE
    /\ wf_errored = FALSE
    /\ wf_status = {}
    /\ wf_jobs = 0

WorkflowIdle ==
    /\ wf_pc = "done"
    /\ wf_job = "step1"
    /\ wf_step = 1
    /\ wf_collab_failed = FALSE
    /\ wf_last = "none"
    /\ wf_saved = {}
    /\ wf_report = FALSE
    /\ wf_errored = FALSE
    /\ wf_status = {}
    /\ wf_jobs = MaxJobs

\* A start endpoint starts the thread of its job (lines 156-160, 246-250,
\* 322-326, 451-455).
StartJob(job) ==
    /\ wf_pc \in {"idle", "done"}
    /\ wf_jobs < MaxJobs
    /\ wf_jobs' = wf_jobs + 1
    /\ wf_pc' = "running"
    /\ wf_job' = job
    /\ wf_step' = 1
    /\ wf_collab_failed' = FALSE
    /\ wf_last' = "none"
    /\ wf_status' = {}
    /\ UNCHANGED <<wf_saved, wf_report, wf_errored>>
    /\ UNCHANGED workflowOthers

\* The except branch of a job: the error stage is saved and the thread ends.
job_fails ==
    /\ wf_saved' = salvar_etapa(wf_saved, error_stage(wf_job))
    /\ wf_last' = error_stage(wf_job)
    /\ wf_errored' = TRUE
    /\ wf_pc' = "done"
    /\ UNCHANGED <<wf_step, wf_report>>

\* The next call of the job is made and returns (o = "ok") or raises; after
\* the last call the job saves its done stage. _save_collection_report
\* catches its own errors (lines 958-973) and then writes no report.
JobCall(o) ==
    /\ wf_pc = "running"
    /\ LET call == JobCalls(wf_job)[wf_step]
           saves == call.callee = "_save_collection_report"
       IN IF ~binds(call)
          THEN job_fails /\ UNCHANGED wf_collab_failed
          ELSE IF o = "raise" /\ ~saves
          THEN job_fails /\ wf_collab_failed' = TRUE
          ELSE /\ wf_report' = (wf_report \/ (saves /\ o = "ok"))
               /\ wf_collab_failed' = (wf_collab_failed \/ o = "raise")
               /\ IF wf_step < Len(JobCalls(wf_job))
                  THEN /\ wf_step' = wf_step + 1
                       /\ UNCHANGED <<wf_pc, wf_last, wf_saved, wf_errored>>
                  ELSE /\ wf_saved' = salvar_etapa(wf_saved, done_stage(wf_job))
                       /\ wf_last' = done_stage(wf_job)
                       /\ wf_pc' = "done"
                       /\ UNCHANGED <<wf_step, wf_errored>>
    /\ UNCHANGED <<wf_job, wf_status, wf_jobs>>
    /\ UNCHANGED workflowOthers

\* A client asks for the status of the session.
GetWorkflowStatus ==
    /\ wf_status' = {workflow_status(wf_saved, wf_report)}
    /\ UNCHANGED <<wf_pc, wf_job, wf_step, wf_collab_failed, wf_last, wf_saved,
                   wf_report, wf_errored, wf_jobs>>
    /\ UNCHANGED workflowOthers

StartJobAny == \E job \in Jobs : StartJob(job)
JobCallAny == \E o \in {"ok", "raise"} : JobCall(o)

\* ------------------- the Serper provider in search_images
\* (lines 126-131, 170-182, 282-331, 480-484)

\* The variables a Serper key can come from: "main" is SERPER_API_KEY, the
\* others SERPER_API_KEY_1..3. A variable is unset, holds white space only
\* ("blank"), or holds a key.
SerperVars == {"main", "k1", "k2", "k3"}
SerperEnvs ==
    {e \in [SerperVars -> {"unset", "blank", "key"}] :
        \A v \in SerperVars \ {"main"} : e[v] # "blank"}

\* _load_multiple_api_keys (lines 170-182): the values that are not empty
\* after strip(), as a count.
load_serper_keys(e) == Cardinality({v \in SerperVars : e[v] = "key"})

\* self.config.get('serper_api_key') is truthy (lines 130, 316): the
\* variable SERPER_API_KEY holds a non-empty string.
config_has_serper(e) == e["main"] # "unset"

GateInit ==
    /\ sg_pc = "env"
    /\ sg_env \in SerperEnvs
    /\ sg_keys = 0
    /\ sg_config = FALSE
    /\ sg_failed = {}
    /\ sg_index = 0
    /\ sg_query = 0
    /\ sg_called = 0
    /\ sg_issued = 0

GateIdle ==
    /\ sg_pc = "done"
    /\ sg_env = [v \in SerperVars |-> "unset"]
    /\ sg_keys = 0
    /\ sg_config = FALSE
    /\ sg_failed = {}
    /\ sg_index = 0
    /\ sg_query = 0
    /\ sg_called = 0
    /\ sg_issued = 0

\* ViralImageFinder() loads config and keys (lines 100-110); by the time
\* search_images runs, the identifiers in failed are quarantined.
GateBuild(failed) ==
    /\ sg_pc = "env"
    /\ sg_keys' = load_serper_keys(sg_env)
    /\ sg_config' = config_has_serper(sg_env)
    /\ failed \subseteq {<<"serper", i>> : i \in 0..(load_serper_keys(sg_env) - 1)}
    /\ sg_failed' = failed
    /\ sg_pc' = "loop"
    /\ UNCHANGED <<sg_env, sg_index, sg_query, sg_called, sg_issued>>
    /\ UNCHANGED gateOthers

\* One pass of `for q in queries[:8]` (lines 312-321) up to the first
\* request of _search_serper_advanced (lines 480-528), which is sent when
\* _get_next_api_key hands out a key.
GateQuery ==
    /\ sg_pc = "loop"
    /\ LET calls == sg_config   \* `if self.config.get('serper_api_key')`
           r == get_next_api_key("serper", sg_keys, sg_index, sg_failed)
       IN /\ sg_called' = IF calls THEN sg_called + 1 ELSE sg_called
          /\ sg_issued' = IF calls /\ r.key # None THEN sg_issued + 1
                          ELSE sg_issued
          /\ sg_index' = IF calls THEN r.index ELSE sg_index
    /\ sg_query' = sg_query + 1
    /\ sg_pc' = IF sg_query + 1 = NumImageQueries THEN "done" ELSE "loop"
    /\ UNCHANGED <<sg_env, sg_keys, sg_config, sg_failed>>
    /\ UNCHANGED gateOthers

GateBuildAny ==
    \E failed \in SUBSET {<<"serper", i>> : i \in 0..3} : GateBuild(failed)

Init ==
    /\ PoolInit /\ ExInit /\ NavInit /\ ScoreIdle /\ DedupIdle /\ FanInit
    /\ RunInit
    /\ BuildIdle
    /\ PersistIdle
    /\ QualityIdle
    /\ AnalyzeIdle
    /\ MassiveIdle
    /\ WorkflowIdle
    /\ GateIdle

SerperStartAny == \E t \in Tasks : SerperStart(t)
SerperWakeAny == \E t \in Tasks : SerperWake(t)
SerperResponseAny ==
    \E t \in Tasks, r \in Responses, k \in 0..MaxItems : SerperResponse(t, r, k)
ApifyStartAny == \E t \in Tasks, h \in BOOLEAN : ApifyStart(t, h)
ApifyResponseAny ==
    \E t \in Tasks, r \in Responses, k \in 0..MaxItems : ApifyResponse(t, r, k)
ClearFailureAny == \E tm \in timers : ClearFailure(tm)

Next ==
    \/ SerperStartAny
    \/ SerperWakeAny
    \/ SerperResponseAny
    \/ ApifyStartAny
    \/ ApifyResponseAny
    \/ ClearFailureAny
    \/ Tick

Spec == Init /\ [][Next]_vars

\* The extraction cascade alone, on an agent whose pool is idle.
CascadeInit ==
    /\ PoolInit
    /\ api_keys = [s \in Services |-> 0]
    /\ ExInit
    /\ NavInit
    /\ ScoreIdle
    /\ DedupIdle
    /\ FanInit
    /\ RunInit
    /\ BuildIdle
    /\ PersistIdle
    /\ QualityIdle
    /\ AnalyzeIdle
    /\ MassiveIdle
    /\ WorkflowIdle
    /\ GateIdle

CascadeNext ==
    \/ ExtractStart
    \/ JinaAttemptAny
    \/ RunTrafilaturaAny
    \/ RunReadabilityAny
    \/ RunBeautifulSoupAny

SpecCascade == CascadeInit /\ [][CascadeNext]_vars

\* One agent running navigate_and_research_deep, run after run.
NavNext ==
    \/ NavStartAny
    \/ NavSearchAny
    \/ NavExtractAny
    \/ NavInternalAny
    \/ NavRelatedAny

SpecNav == CascadeInit /\ [][NavNext]_vars

\* One agent, run after run of navigate_and_research_deep with
\* depth_levels = 1.
RunShallow == RunStart(1)

RunNext ==
    \/ RunShallow
    \/ RunSearchAny
    \/ RunExtractAny
    \/ RunFinish

SpecRun == CascadeInit /\ [][RunNext]_vars

\* The first run on a fresh agent.
RunFirstAny == rn_pc = "idle" /\ RunStartAny

RunOnceNext ==
    \/ RunFirstAny
    \/ RunSearchAny
    \/ RunExtractAny
    \/ RunInternalAny
    \/ RunQueriesAny
    \/ RunRelatedAny
    \/ RunFinish

SpecRunOnce == CascadeInit /\ [][RunOnceNext]_vars

\* A finder or an agent constructed in every bounded environment.
BuildSpecInit ==
    /\ PoolInit
    /\ api_keys = [s \in Services |-> 0]
    /\ ExInit
    /\ NavInit
    /\ ScoreIdle
    /\ DedupIdle
    /\ FanInit
    /\ RunInit
    /\ BuildInit
    /\ PersistIdle
    /\ QualityIdle
    /\ AnalyzeIdle
    /\ MassiveIdle
    /\ WorkflowIdle
    /\ GateIdle

BuildNext ==
    \/ NewFinder
    \/ NewAgent

SpecBuild == BuildSpecInit /\ [][BuildNext]_vars

\* Every bounded list of viral images saved and read back.
PersistSpecInit ==
    /\ PoolInit
    /\ api_keys = [s \in Services |-> 0]
    /\ ExInit
    /\ NavInit
    /\ ScoreIdle
    /\ DedupIdle
    /\ FanInit
    /\ RunInit
    /\ BuildIdle
    /\ PersistInit
    /\ QualityIdle
    /\ AnalyzeIdle
    /\ MassiveIdle
    /\ WorkflowIdle
    /\ GateIdle

PersistNext ==
    \/ SaveResultsAny
    \/ IncorporateViralData

SpecPersist == PersistSpecInit /\ [][PersistNext]_vars

\* _calculate_content_quality applied to every input described.
QualitySpecInit ==
    /\ PoolInit
    /\ api_keys = [s \in Services |-> 0]
    /\ ExInit
    /\ NavInit
    /\ ScoreIdle
    /\ DedupIdle
    /\ FanInit
    /\ RunInit
    /\ BuildIdle
    /\ PersistIdle
    /\ QualityInit
    /\ AnalyzeIdle
    /\ MassiveIdle
    /\ WorkflowIdle
    /\ GateIdle

SpecQuality == QualitySpecInit /\ [][QualityCall]_vars

\* analyze_post_engagement on every post described, then the ViralImage.
AnalyzeSpecInit ==
    /\ PoolInit
    /\ api_keys = [s \in Services |-> 0]
    /\ ExInit
    /\ NavInit
    /\ ScoreIdle
    /\ DedupIdle
    /\ FanInit
    /\ RunInit
    /\ BuildIdle
    /\ PersistIdle
    /\ QualityIdle
    /\ AnalyzeInit
    /\ MassiveIdle
    /\ WorkflowIdle
    /\ GateIdle

AnalyzeNext ==
    \/ AnalyzeStartAny
    \/ RunStrategyAny
    \/ RunEstimate
    \/ MakeViralImage

SpecAnalyze == AnalyzeSpecInit /\ [][AnalyzeNext]_vars

\* One invocation of execute_massive_search, whatever the providers add.
MassiveSpecInit ==
    /\ PoolInit
    /\ api_keys = [s \in Services |-> 0]
    /\ ExInit
    /\ NavInit
    /\ ScoreIdle
    /\ DedupIdle
    /\ FanInit
    /\ RunInit
    /\ BuildIdle
    /\ PersistIdle
    /\ QualityIdle
    /\ AnalyzeIdle
    /\ MassiveInit
    /\ WorkflowIdle
    /\ GateIdle

MassiveNext ==
    \/ MassiveStart
    \/ MassiveSearchAny
    \/ MassiveNextPass

SpecMassive == MassiveSpecInit /\ [][MassiveNext]_vars

\* The jobs of one session and the status endpoint.
WorkflowSpecInit ==
    /\ PoolInit
    /\ api_keys = [s \in Services |-> 0]
    /\ ExInit
    /\ NavInit
    /\ ScoreIdle
    /\ DedupIdle
    /\ FanInit
    /\ RunInit
    /\ BuildIdle
    /\ PersistIdle
    /\ QualityIdle
    /\ AnalyzeIdle
    /\ MassiveIdle
    /\ WorkflowInit
    /\ GateIdle

WorkflowNext ==
    \/ StartJobAny
    \/ JobCallAny
    \/ GetWorkflowStatus

SpecWorkflow == WorkflowSpecInit /\ [][WorkflowNext]_vars

\* search_images on a finder built from every Serper environment.
GateSpecInit ==
    /\ PoolInit
    /\ api_keys = [s \in Services |-> 0]
    /\ ExInit
    /\ NavInit
    /\ ScoreIdle
    /\ DedupIdle
    /\ FanInit
    /\ RunInit
    /\ BuildIdle
    /\ PersistIdle
    /\ QualityIdle
    /\ AnalyzeIdle
    /\ MassiveIdle
    /\ WorkflowIdle
    /\ GateInit

GateNext ==
    \/ GateBuildAny
    \/ GateQuery

SpecGate == GateSpecInit /\ [][GateNext]_vars

\* _calculate_engagement_score applied to every bounded input.
ScoreSpecInit ==
    /\ PoolInit
    /\ api_keys = [s \in Services |-> 0]
    /\ ExInit
    /\ NavInit
    /\ ScoreInit
    /\ DedupIdle
    /\ FanInit
    /\ RunInit
    /\ BuildIdle
    /\ PersistIdle
    /\ QualityIdle
    /\ AnalyzeIdle
    /\ MassiveIdle
    /\ WorkflowIdle
    /\ GateIdle

SpecScore == ScoreSpecInit /\ [][ScoreCall]_vars

\* The deduplication step applied to every bounded result list.
DedupSpecInit ==
    /\ PoolInit
    /\ api_keys = [s \in Services |-> 0]
    /\ ExInit
    /\ NavInit
    /\ ScoreIdle
    /\ DedupInit
    /\ FanInit
    /\ RunInit
    /\ BuildIdle
    /\ PersistIdle
    /\ QualityIdle
    /\ AnalyzeIdle
    /\ MassiveIdle
    /\ WorkflowIdle
    /\ GateIdle

DedupNext ==
    \/ Dedup
    \/ DedupAgain

SpecDedup == DedupSpecInit /\ [][DedupNext]_vars

\* One finder running find_viral_images, call after call.
FanNext ==
    \/ FvStartAny
    \/ FvAcquireAny
    \/ FvEngagementAny
    \/ FvImageAny
    \/ FvGather

SpecFan == CascadeInit /\ [][FanNext]_vars

\* One call of find_viral_images on a fresh finder. FvStart sets every
\* local anew, so a later call behaves as the first one does.
FvFirstAny == fv_pc = "idle" /\ FvStartAny

FanCallNext ==
    \/ FvFirstAny
    \/ FvAcquireAny
    \/ FvEngagementAny
    \/ FvImageAny
    \/ FvGather

\* Every awaited call of a processing body returns, and the event loop
\* runs every task that can run.
FairFan ==
    /\ CascadeInit /\ [][FanCallNext]_vars
    /\ WF_vars(FvAcquireAny)
    /\ WF_vars(FvEngagementAny)
    /\ WF_vars(FvImageAny)
    /\ WF_vars(FvGather)

\* Time passes and a thread whose sleep is over runs: the scheduling of the
\* timer threads. Nothing is assumed of the clients.
FairSpec == Spec /\ WF_vars(Tick) /\ WF_vars(ClearFailureAny)

\* ======================================================= credential pool

Indexes(s) == 0..(api_keys[s] - 1)
QuarantinedIn(s, F) == \A i \in Indexes(s) : <<s, i>> \in F
Quiescent(t) == pc[t] \in {"idle", "done"}

\* The quarantine sets a call can meet in the current state: failed_apis,
\* and failed_apis just after a client marked one key in the same step.
SetsAtCall == {failed_apis} \cup {failed_apis \cup {id} : id \in KeyIds}

\* C1: in every reachable pool state, for every service,
\* _get_next_api_key returns None exactly when the service has no key or
\* every key index of it is quarantined, and otherwise returns a key whose
\* index is configured and not quarantined.
C1_NoneIffExhausted ==
    \A s \in Services : \A F \in SetsAtCall :
        LET r == get_next_api_key(s, api_keys[s], current_api_index[s], F)
        IN /\ (r.key = None) <=> (api_keys[s] = 0 \/ QuarantinedIn(s, F))
           /\ r.key # None => (r.key \in Indexes(s) /\ <<s, r.key>> \notin F)

\* A call against a fully quarantined service with keys has returned None
\* to the search task, which went on without a request.
C1_Witness ==
    /\ api_keys["serper"] = MaxKeys
    /\ QuarantinedIn("serper", failed_apis)
    /\ pc[SearchTask] = "sleep" /\ ~requested[SearchTask]

\* The first index after `last` in cyclic order that is not in F.
CyclicNext(s, last, F) ==
    LET n == api_keys[s]
        start == IF last = None THEN 0 ELSE (last + 1) % n
        d == CHOOSE d \in 0..(n - 1) :
                /\ <<s, (start + d) % n>> \notin F
                /\ \A e \in 0..(d - 1) : <<s, (start + e) % n>> \in F
    IN (start + d) % n

\* A step in which task t obtained a key from _get_next_api_key.
KeyTaken(t) ==
    /\ pc'[t] = "await"
    /\ pc[t] # "await" \/ attempts'[t] # attempts[t]

\* C2: round-robin. Every key a call returns is the first non-quarantined
\* index, in cyclic index order, after the index the previous call of the
\* service returned (index 0 first); when a single index is not
\* quarantined, that index is returned.
C2_RoundRobin ==
    [][\A t \in Tasks : KeyTaken(t) =>
          LET s == svc'[t]
              F == failed_apis'
          IN /\ api_key'[t] = CyclicNext(s, last_returned[s], F)
             /\ \A j \in Indexes(s) :
                   (\A i \in Indexes(s) \ {j} : <<s, i>> \in F) => api_key'[t] = j
    ]_vars

\* Two concurrent tasks hold the two keys of the service in rotation order
\* and the index has wrapped around.
C2_Witness ==
    \E t1, t2 \in ApifyTasks :
        /\ api_keys["apify"] = MaxKeys
        /\ pc[t1] = "await" /\ pc[t2] = "await"
        /\ api_key[t1] = MaxKeys - 2 /\ api_key[t2] = MaxKeys - 1
        /\ current_api_index["apify"] = 0

\* C3 (as claimed): a credential leaves the quarantine set exactly Cooldown
\* after it entered it, never earlier, whatever failure reports were made
\* in between.
C3_ReleasedExactlyAfterCooldown ==
    [][\A id \in KeyIds :
          (id \in failed_apis /\ id \notin failed_apis')
              => now = quarantined_at[id] + Cooldown
    ]_vars

\* C4: every quarantined credential eventually leaves the quarantine set by
\* its timer thread alone, whether or not any client calls the pool again.
C4_QuarantineRecovers ==
    \A id \in KeyIds : (id \in failed_apis) ~> (id \notin failed_apis)

\* A quarantined credential whose cool-down is over while no client call
\* is in progress.
C4_Witness ==
    \E id \in KeyIds :
        /\ id \in failed_apis
        /\ now = quarantined_at[id] + Cooldown
        /\ \A t \in Tasks : Quiescent(t)

\* C5 (as claimed): handling a 429 answer to a Serper request made with
\* key c leaves c in the quarantine set.
C5_RateLimitQuarantines ==
    [][\A t \in Tasks : \A k \in 0..MaxItems :
          SerperResponse(t, "s429", k) => <<"serper", api_key[t]>> \in failed_apis'
    ]_vars

\* A transient failure of a request: network error, timeout, undecodable
\* body, non-auth status, or (Apify) an empty payload.
TransientFailure(s, r, k) ==
    \/ Kind(r) = "Transient"
    \/ s = "apify" /\ r = "ok" /\ k = 0

\* C6 (as claimed): handling a transient failure leaves the quarantine set
\* unchanged, in the Serper path and in the Apify path.
C6_TransientNeverQuarantines ==
    [][\A t \in Tasks : \A r \in Responses : \A k \in 0..MaxItems :
          /\ (TransientFailure("serper", r, k) /\ SerperResponse(t, r, k))
                => failed_apis' = failed_apis
          /\ (TransientFailure("apify", r, k) /\ ApifyResponse(t, r, k))
                => failed_apis' = failed_apis
    ]_vars

\* A step of a client call of task t that consults the pool.
PoolStep(t) ==
    \/ SerperStart(t)
    \/ SerperWake(t)
    \/ \E h \in BOOLEAN : ApifyStart(t, h)

\* C7: a client call that finds no usable credential (no key configured,
\* or all of them quarantined) issues no request and collects nothing; a
\* call that returns without having issued a request returns the empty
\* result ([] for Serper, None for Apify), and the Apify call returns at
\* once.
C7_ExhaustedReturnsEmpty ==
    /\ [](\A t \in Tasks : (pc[t] = "done" /\ ~requested[t]) => results[t] = 0)
    /\ [][\A t \in Tasks :
            (PoolStep(t) /\ QuarantinedIn(svc'[t], failed_apis)) =>
                /\ pc'[t] # "await"
                /\ results'[t] = IF SerperWake(t) THEN results[t] ELSE 0
                /\ requested'[t] = (SerperWake(t) /\ requested[t])
                /\ svc'[t] = "apify" => pc'[t] = "done"
       ]_vars

\* The search task returned from a Serper call during which every
\* configured key was quarantined, with no request made and no result.
C7_Witness ==
    /\ api_keys["serper"] > 0
    /\ QuarantinedIn("serper", failed_apis)
    /\ pc[SearchTask] = "done" /\ svc[SearchTask] = "serper"
    /\ ~requested[SearchTask]

\* =================================================== extraction cascade

\* The extraction ended by returning the output of strategy number i.
EndedWith(i) ==
    /\ i = Len(ex_outputs)
    /\ ex_pc = "done"
    /\ ex_result = ex_outputs[i]

\* C8: first success wins. No strategy is run after one whose output
\* cleared the threshold, and the value returned is the output of that
\* first strategy (None when none cleared it).
C8_FirstSuccessWins ==
    LET n == Len(ex_outputs)
    IN /\ \A i \in 1..(n - 1) : ~accepts(ex_outputs[i])
       /\ n <= Len(strategies)
       /\ Len(ex_calls) >= n
       /\ (n > 0 /\ accepts(ex_outputs[n])) => EndedWith(n)
       /\ (ex_pc = "done" /\ n > 0 /\ ~accepts(ex_outputs[n]))
             => ex_result = NoContent

\* Strategy 1 gave 150 characters, strategy 2 gave 500: the result is the
\* output of strategy 2 and strategy 3 was not invoked.
C8_Witness ==
    /\ ex_pc = "done"
    /\ ex_outputs = <<Text("jina", 150), Text("trafilatura", 500)>>
    /\ ex_result = Text("trafilatura", 500)
    /\ ex_calls = <<"jina", "trafilatura">>

\* C9 (as claimed): a text of length L ends the cascade as its result
\* exactly when L >= 300.
C9_AcceptedIffAtLeast300 ==
    \A i \in DOMAIN ex_outputs :
        ex_outputs[i].kind = "text" =>
            ((ex_outputs[i].len >= 300) <=> EndedWith(i))

\* C9 (amended): a text of length L ends the cascade as its result exactly
\* when L > 300; a text of exactly 300 characters is not accepted.
C9_AcceptedIffOver300 ==
    \A i \in DOMAIN ex_outputs :
        ex_outputs[i].kind = "text" =>
            /\ (ex_outputs[i].len > 300) <=> EndedWith(i)
            /\ ex_outputs[i].len = 300 => ~EndedWith(i)

\* The first strategy gave exactly 300 characters and the cascade went on
\* to the second, whose 301 characters were returned.
C9_Witness ==
    /\ ex_pc = "done"
    /\ ex_outputs = <<Text("jina", 300), Text("trafilatura", 301)>>
    /\ ex_result = Text("trafilatura", 301)

\* C10: no exception leaves the cascade; when no strategy gave an accepted
\* text (nothing, too short, or an exception) all four strategies were run
\* and the result is None; a strategy that threw is followed by the next.
C10_AllFailReturnsNone ==
    LET n == Len(ex_outputs)
    IN /\ ~ex_raised
       /\ (ex_pc = "done" /\ \A i \in 1..n : ~accepts(ex_outputs[i]))
             => (ex_result = NoContent /\ n = 4)
       /\ \A i \in 1..n :
             (ex_outputs[i].kind = "raise" /\ i < 4)
                 => (ex_pc = strategies[i + 1] \/ n > i)

\* The first strategy threw, the second gave nothing, the third a short
\* text, the fourth threw: the cascade returned None.
C10_Witness ==
    /\ ex_pc = "done"
    /\ ex_outputs = <<Raised("jina"), NoContent, Text("readability", 150),
                      Raised("beautifulsoup")>>
    /\ ex_result = NoContent
    /\ ~ex_raised

\* Position of an extractor in the priority list.
Rank(name) == CHOOSE i \in DOMAIN strategies : strategies[i] = name

\* C11 (as claimed): extractors run in strict priority order. An extractor
\* is invoked only after every extractor of higher priority was invoked
\* for the URL; naive tag-stripping never runs before strategies 2 and 3.
C11_StrictPriorityOrder ==
    \A j \in DOMAIN ex_calls :
        \A r \in 1..(Rank(ex_calls[j]) - 1) :
            \E i \in 1..(j - 1) : ex_calls[i] = strategies[r]

\* ======================================== navigate_and_research_deep

\* C12 (as claimed): within one run each URL goes through extraction at
\* most once and has at most one entry in the aggregated content.
C12_EachUrlOnce ==
    \A u \in Urls : nav_extracted[u] <= 1 /\ all_content[u] <= 1

\* ======================================== _calculate_engagement_score

\* The reference of the claim, as the fraction num / den of hundredths:
\* weighted = likes + 5 comments + 10 shares; the rate over views, else
\* over followers, else weighted itself; times 1.2 iff weighted > 100.
RefWeighted == sc_in.likes + 5 * sc_in.comments + 10 * sc_in.shares

RefRate ==
    LET w == RefWeighted
        k == IF w > 100 THEN 12 ELSE 10
    IN IF sc_in.views > 0 THEN [num |-> w * 1000 * k, den |-> sc_in.views]
       ELSE IF sc_in.followers > 0
       THEN [num |-> w * 1000 * k, den |-> sc_in.followers]
       ELSE [num |-> w * 10 * k, den |-> 1]

\* max(rate, 0.1 * weighted), over the denominator of the rate.
RefMaxNum ==
    IF RefRate.num >= 10 * RefWeighted * RefRate.den THEN RefRate.num
    ELSE 10 * RefWeighted * RefRate.den

\* C13: the score returned is the reference value max(rate, 0.1 weighted)
\* rounded to two decimals (within half a hundredth of it); all-zero
\* metrics score 0 and the score is never below 0.1 weighted.
C13_ScoreEqualsReference ==
    sc_pc = "done" =>
        LET d == sc_out * RefRate.den - RefMaxNum
        IN /\ 2 * d <= RefRate.den /\ 2 * (0 - d) <= RefRate.den
           /\ sc_out >= 10 * RefWeighted
           /\ (RefWeighted = 0 => sc_out = 0)

\* 101 likes seen 7 times: 101 / 7 * 100 * 1.2 = 1731.428..., scored 1731.43.
C13_Witness ==
    /\ sc_pc = "done"
    /\ sc_in = [likes |-> 101, comments |-> 0, shares |-> 0, views |-> 7,
                followers |-> 0]
    /\ sc_out = 173143

\* C14: the score does not decrease when likes, comments or shares grow by
\* one with the other four inputs fixed.
C14_ScoreMonotone ==
    sc_pc = "done" =>
        /\ calculate_engagement_score(sc_in.likes + 1, sc_in.comments,
               sc_in.shares, sc_in.views, sc_in.followers) >= sc_out
        /\ calculate_engagement_score(sc_in.likes, sc_in.comments + 1,
               sc_in.shares, sc_in.views, sc_in.followers) >= sc_out
        /\ calculate_engagement_score(sc_in.likes, sc_in.comments,
               sc_in.shares + 1, sc_in.views, sc_in.followers) >= sc_out

\* A post at the bonus threshold (weighted = 100, no bonus) scored over
\* its followers; one more like brings the bonus.
C14_Witness ==
    /\ sc_pc = "done"
    /\ sc_in = [likes |-> 95, comments |-> 1, shares |-> 0, views |-> 0,
                followers |-> 16]
    /\ sc_out = 62500
    /\ calculate_engagement_score(96, 1, 0, 0, 16) = 75750

\* ======================================== deduplication of search_images

Post(p, s) == [page |-> p, spelling |-> s]

\* C15: the deduplication step applied to its own output gives that
\* output again, and the output is never longer than the input.
C15_DedupIdempotent ==
    /\ dd_pc = "twice" => dd_out2 = dd_out
    /\ Len(dd_out) <= Len(dd_in)

\* A list with a repeated post and the URL of another site went
\* through the step twice.
C15_Witness ==
    /\ dd_pc = "twice"
    /\ dd_in = <<Post(1, "pad"), OtherSite, Post(1, "plain")>>
    /\ dd_out = <<1>>
    /\ dd_out2 = <<1>>

\* Result number i is the first one with its key, and the key passes the
\* validity check.
FirstOfItsKey(i) ==
    /\ strip(dd_in[i]) # EmptyString
    /\ is_valid_social_url(strip(dd_in[i]))
    /\ \A j \in 1..(i - 1) : strip(dd_in[j]) # strip(dd_in[i])

\* C16: the output is the subsequence of the input, in input order, made
\* of the first result of each key that passes the validity check.
C16_FirstOccurrenceInOrder ==
    dd_pc # "call" =>
        /\ \A a, b \in DOMAIN dd_out : a < b => dd_out[a] < dd_out[b]
        /\ {dd_out[a] : a \in DOMAIN dd_out}
               = {i \in DOMAIN dd_in : FirstOfItsKey(i)}

\* Two posts interleaved with a repetition of the first: the first result
\* of each is kept, in input order.
C16_Witness ==
    /\ dd_pc = "once"
    /\ dd_in = <<Post(2, "plain"), Post(1, "plain"), Post(2, "pad")>>
    /\ dd_out = <<1, 2>>

\* C17 (as claimed): two results whose page URLs are spellings of the same
\* post (scheme or host letter case, tracking parameters, trailing slash)
\* never both survive.
C17_CanonicalKey ==
    dd_pc # "call" =>
        \A a, b \in DOMAIN dd_out :
            dd_in[dd_out[a]].page = dd_in[dd_out[b]].page => a = b

\* ======================================== find_viral_images

\* The processing bodies inside `async with semaphore`.
InFlight == {i \in Cands : fv_task[i] \in {"engagement", "image"}}

\* C18: at most 3 processing bodies are in flight at any time, and every
\* body that ended, by an exception too, has given its slot back: the
\* free slots and the bodies in flight always add up to 3.
C18_BoundedFanOut ==
    /\ Cardinality(InFlight) <= 3
    /\ semaphore >= 0
    /\ semaphore + Cardinality(InFlight) = 3

\* The body of the first candidate failed with an exception, and three
\* other bodies are in flight: the fourth one runs in the slot given back.
C18_Witness ==
    /\ fv_pc = "running"
    /\ fv_task[1] = "returned" /\ fv_result[1] = None
    /\ InFlight = {2, 3, 4}
    /\ semaphore = 0

C20_SortedStable ==
    fv_pc = "done" =>
        /\ {viral_images[k].cand : k \in DOMAIN viral_images}
              = {i \in Cands : fv_result[i] # None}
        /\ \A k \in DOMAIN viral_images :
              viral_images[k].score = fv_result[viral_images[k].cand]
        /\ \A a, b \in DOMAIN viral_images :
              a < b =>
                 \/ viral_images[a].score > viral_images[b].score
                 \/ /\ viral_images[a].score = viral_images[b].score
                    /\ viral_images[a].cand < viral_images[b].cand

\* Three candidates completed in the order 3, 2, 1; the second and third
\* have the same score and come out in discovery order, before the first.
C20_Witness ==
    /\ fv_pc = "done"
    /\ fv_completed = <<3, 2, 1>>
    /\ viral_images = <<[cand |-> 2, score |-> 1], [cand |-> 3, score |-> 1],
                        [cand |-> 1, score |-> 0]>>

\* ---------------------------------------------------------------- C21
\* C21: a run is returned as an emergency payload if and only if no
\* engine of the search phase returned a result; a run in which some
\* engine returned a result is never returned as an emergency payload.
C21_EmergencyIffNoResults ==
    rn_pc = "done" =>
        (rn_result.kind = "emergency" <=> search_engines_used = 0)

\* ---------------------------------------------------------------- C22
\* C22: when no search call of the run gave a result, the result is
\* flagged emergency, holds no analysed page, and carries statistics
\* whose total_searches is positive.
C22_DegradedScenario ==
    (rn_pc = "done" /\ search_engines_used = 0 /\ rn_content = 0) =>
        /\ rn_result.kind = "emergency"
        /\ rn_result.pages = 0
        /\ rn_result.statistics
        /\ navigation_stats.total_searches > 0

C25_FailedEngineSkipped ==
    /\ [][(rn_pc = "engines" /\ rn_queried' = rn_queried + 1
              /\ rn_last' \in {"timeout", "raise"}) =>
            /\ rn_content' = rn_content
            /\ rn_pending' = 0
            /\ search_engines_used' = search_engines_used
            /\ (rn_idx < NumEngines =>
                    rn_pc' = "engines" /\ rn_idx' = rn_idx + 1)]_vars
    /\ [](rn_pc \in {"internal", "queries", "related", "finish", "done"} =>
            rn_queried = NumEngines)

\* The second engine raised and the third comes next; the first one had
\* timed out or failed, nothing was found so far.
C25_Witness ==
    /\ rn_pc = "engines"
    /\ rn_last = "raise"
    /\ rn_queried = 2
    /\ rn_idx = 3
    /\ search_engines_used = 0

\* ---------------------------------------------------------------- C27
\* C27: the statistics a run reports count the events of that run only:
\* each counter equals what the run added to it, however many runs the
\* agent did before.
C27_StatsOfThisRunOnly ==
    (rn_pc = "done" /\ rn_result.statistics) =>
        \A f \in DOMAIN ZeroStats :
            navigation_stats[f] = navigation_stats[f] - rn_stats_at_start[f]

\* ---------------------------------------------------------------- C24
\* C24: with no credential for any provider the construction of the
\* service raises, and with one credential or more it gives an instance.
C24_FailFastAtConstruction ==
    bd_pc \in {"finder", "agent"} =>
        (bd_outcome = "raised" <=> total_apis(bd_keys) = 0)

\* ---------------------------------------------------------------- C26
\* C26: each platform_distribution entry of the file carries count,
\* engagement, views and likes, and what _incorporate_viral_data reads
\* for a platform is what save_results wrote for it: the count and the
\* sums of engagement, views and likes of its images.
C26_WrittenFieldsAreRead ==
    (ps_pc = "read" /\ ps_files # {}) =>
        \A doc \in ps_files : \A p \in DOMAIN doc.platform_distribution :
            /\ DOMAIN doc.platform_distribution[p] =
                   {"count", "engagement", "views", "likes"}
            /\ ps_shown[p].count = count_of(ps_images, p)
            /\ ps_shown[p].engagement = sum_of(ps_images, p, "engagement")
            /\ ps_shown[p].views = sum_of(ps_images, p, "views")
            /\ ps_shown[p].likes = sum_of(ps_images, p, "likes")

\* ---------------------------------------------------------------- C28
\* C28: the quality returned lies in 0..100, each of its five parts stays
\* within its cap (length 20, context terms 30, domain 20, word count 15,
\* data patterns 15), and empty content scores 0.
C28_QualityBounded ==
    cq_pc = "done" =>
        /\ cq_out >= 0 /\ cq_out <= 100
        /\ length_score(cq_in.chars) <= 20
        /\ relevance_score(cq_in.hits) <= 30
        /\ domain_score(cq_in.tier) <= 20
        /\ density_score(cq_in.words) <= 15
        /\ data_score(cq_in.data) <= 15
        /\ (cq_in.chars = 0 => cq_out = 0)

\* The best content scored: every part at its cap, 100 in all; this is
\* one of the calls, an empty content is another.
C28_Witness ==
    /\ cq_pc = "done"
    /\ cq_in = [chars |-> 2500, words |-> 500, hits |-> 3,
                tier |-> "preferred", data |-> 5]
    /\ cq_out = 100

\* ------------------- concurrent workflow sessions (enhanced_workflow.py)
\* Every workflow request starts a thread with an event loop of its own
\* (lines 78-159) that calls find_viral_images on the module-level agent:
\* the search_images of a second session takes its Serper keys from the
\* same pool.
SessionTask == 1           \* the task running search_images in that session

SessionSearchStart(t) ==
    /\ t = SessionTask
    /\ pc[t] \in {"idle", "done"}
    /\ svc' = [svc EXCEPT ![t] = "serper"]
    /\ results' = [results EXCEPT ![t] = 0]
    /\ IF api_keys["serper"] = 0
       THEN /\ pc' = [pc EXCEPT ![t] = "done"]
            /\ requested' = [requested EXCEPT ![t] = FALSE]
            /\ reset_locals(t)
            /\ UNCHANGED <<current_api_index, last_returned>>
       ELSE serper_attempt(t, 1, 0, FALSE)
    /\ UNCHANGED <<api_keys, failed_apis, timers, now, quarantined_at>>
    /\ UNCHANGED poolOthers

SessionSearchStartAny == \E t \in Tasks : SessionSearchStart(t)

SessionsNext ==
    \/ SerperStartAny
    \/ SessionSearchStartAny
    \/ SerperWakeAny
    \/ SerperResponseAny
    \/ ClearFailureAny
    \/ Tick

\* The Serper searches of concurrent sessions on one pool.
SpecSessions == Init /\ [][SessionsNext]_vars

\* C29: when a Serper request of task t fails with an auth status, the
\* credential added to the quarantine set is the one task t sent in that
\* request (api_key[t]) and no other, whatever other tasks took Serper keys
\* from the pool between the hand-out and the report.
C29_QuarantinesSentCredential ==
    [][\A t \in Tasks : \A r \in Responses : \A k \in 0..MaxItems :
          (Kind(r) = "Auth" /\ SerperResponse(t, r, k))
             => failed_apis' \ failed_apis \subseteq {<<"serper", api_key[t]>>}
    ]_vars

\* Number of attempts strategy s has made in the current extraction.
AttemptsOf(s) == Cardinality({i \in DOMAIN ex_calls : ex_calls[i] = s})

\* C30: within one extraction of a URL no strategy is retried: each of the
\* four strategies (remote reader, boilerplate removal, readability, tag
\* stripping) makes at most one attempt for that URL.
C30_NoStrategyRetried ==
    \A i \in DOMAIN strategies : AttemptsOf(strategies[i]) <= 1

\* C31: within one _search_serper_advanced call and one search type no
\* credential is used for two attempts: a retry after a failed attempt
\* (attempts > 0) is made with another credential than the one the
\* previous attempt of that search type sent, which is the key the pool
\* returned last for the service, whatever keys are quarantined.
C31_RetryUsesAnotherCredential ==
    [][\A t \in Tasks :
          (SerperWake(t) /\ attempts[t] > 0 /\ pc'[t] = "await")
             => api_key'[t] # last_returned["serper"]
    ]_vars

\* C32: for every item in the output of find_viral_images, engagement_score
\* equals _calculate_engagement_score applied to that item's own likes,
\* comments, shares, views and author_followers, whichever engagement
\* strategy produced the metrics.
C32_ScoreIsScorerOfOwnMetrics ==
    \A v \in an_image :
        v.engagement_score =
            calculate_engagement_score(v.likes_estimate, v.comments_estimate,
                                       v.shares_estimate, v.views_estimate,
                                       v.author_followers)

\* C33: analyze_post_engagement invokes its strategies in the order
\* dedicated API, embed endpoint, meta-tag scrape, browser automation,
\* estimate; the first strategy that gives data ends the call and its data
\* is what is returned, no later strategy being invoked; a strategy that
\* raises counts as failed: another strategy runs after it, so that the
\* call always ends with data, from the estimate when nothing else gave any.
C33_FirstSuccessInOrder ==
    /\ \A i, j \in DOMAIN an_calls :
          i < j => RankOf(an_calls[i]) < RankOf(an_calls[j])
    /\ \A i \in DOMAIN an_outcomes :
          /\ an_outcomes[i] = "data" => i = Len(an_outcomes)
          /\ an_outcomes[i] = "raise" => (i < Len(an_outcomes) \/ an_pc # "done")
    /\ an_pc \in {"image", "done"} =>
          /\ an_calls # <<>>
          /\ an_outcomes[Len(an_outcomes)] = "data"
          /\ Cardinality(an_result) = 1
          /\ \A d \in an_result : d.by = an_calls[Len(an_calls)]
          /\ (\A i \in 1..(Len(an_calls) - 1) : an_outcomes[i] # "data")

C33_Witness ==
    /\ an_pc = "done"
    /\ an_calls = <<"apify", "embed", "browser", "estimate">>
    /\ an_outcomes = <<"raise", "none", "raise", "data">>

\* C34: every URL on which the extraction cascade runs and no strategy
\* succeeds is recorded as a failed extraction: failed_extractions grows
\* by one for that URL and successful_extractions stays as it was.
C34_NoContentCountsAsFailed ==
    [][RunExtract("nothing") =>
          /\ navigation_stats'.failed_extractions =
                navigation_stats.failed_extractions + 1
          /\ navigation_stats'.successful_extractions =
                navigation_stats.successful_extractions
    ]_vars

\* C35: in a run of navigate_and_research_deep the searching phase
\* precedes the extracting phase: no content extraction of any URL starts
\* before all the configured engines have been searched.
C35_SearchingBeforeExtracting ==
    [][(\E o \in ExtractOutcomes : RunExtract(o)) => rn_queried >= NumEngines
    ]_vars

\* C36: execute_massive_search makes at most MaxSearches (50) searches per
\* invocation: search_count never exceeds 50, whatever the providers return
\* and even when the target size is never reached.
C36_AtMostFiftySearches == search_count <= MaxSearches

\* C37: within one invocation of execute_massive_search no query string is
\* sent to the providers more than once, also after the list was extended
\* with the expanded queries.
C37_EachQueryOnce == \A q \in QueryIds : ms_issued[q] <= 1

\* C38: the step-1 job, when every collaborator call succeeds, reaches the
\* save of 'etapa1_concluida' and writes the collection report; it saves
\* 'etapa1_erro' only if some collaborator call has failed.
C38_Step1Concludes ==
    (wf_pc = "done" /\ wf_job = "step1") =>
        /\ ~wf_collab_failed => (wf_last = "etapa1_concluida" /\ wf_report)
        /\ wf_last = "etapa1_erro" => wf_collab_failed

\* C39: once a background job of the session (step 1, 2, 3 or the complete
\* workflow) has ended with an error, every later answer of
\* get_workflow_status for the session carries the error.
C39_JobErrorIsReported ==
    [][(GetWorkflowStatus /\ wf_errored) => \A s \in wf_status' : s.error
    ]_vars

\* Some Serper key of the finder is not quarantined.
SerperUsable == \E i \in 0..(sg_keys - 1) : <<"serper", i>> \notin sg_failed

\* C40: search_images sends the Serper search for each of its queries
\* whenever the pool holds a Serper key that is not quarantined, whichever
\* variable the key was loaded from.
C40_SerperUsedWhenPoolHasKey ==
    (sg_pc = "done" /\ SerperUsable) => sg_issued = NumImageQueries

====
